---- MODULE Spec2Model ----
(***************************************************************************)
(* Model of the go-entitlement-service dispatch layer:                     *)
(*   - service.Service.CheckPermission (the Router) and                    *)
(*     service.Service.checkBothImplementations (the Comparator),          *)
(*   - server.CheckPermission and server.CheckBulkPermissions.             *)
(* The three evaluators are modelled by the (response, error) pairs that   *)
(* their client code can return.                                           *)
(*                                                                         *)
(* Encoding of Go values:                                                  *)
(*   *pb.PermissionResponse  : <<>> for a nil pointer, <<r>> for a pointer *)
(*                             to the record r;                            *)
(*   error                   : <<>> for nil, otherwise the text of         *)
(*                             err.Error() as a sequence of text pieces    *)
(*                             (every error built by the code has a        *)
(*                             non-empty text);                            *)
(*   string built by Sprintf : the concatenation of its pieces.            *)
(***************************************************************************)
EXTENDS Integers, Sequences, FiniteSets, TLC

\* ------------------------------------------------------------------------
\* Bounds of the model
\* ------------------------------------------------------------------------

\* longest batch handed to CheckBulkPermissions
MaxRequests == 2

\* ceilings up to len(requests) + MaxCeilingSlack are tried
MaxCeilingSlack == 1

\* the largest elapsed time, in milliseconds, a clock reading gives
MaxElapsedMs == 1

\* the largest latency, in milliseconds, of one Router call
MaxLatencyMs == 1

\* the largest number of iterations of a benchmark case
MaxIterations == 2

\* the largest number of requests a stream delivers
MaxStream == 2

\* the largest length of the latency slices taken with every content
MaxSamples == 3

\* the largest length of the latency slices taken with one content per length
MaxLongSamples == 101

\* ------------------------------------------------------------------------
\* Go values
\* ------------------------------------------------------------------------

Nil == <<>>

IsNil(p) == p = <<>>

Ptr(r) == <<r>>

Deref(p) == p[1]

NoErr == <<>>

\* pb.Implementation values used by the service
Implementations == {"UNSPECIFIED", "SPICEDB", "NEO4J", "GRAPHQL", "BOTH"}

\* &pb.PermissionResponse{HasPermission: h, Implementation: i, ErrorMessage: m}
Response(h, i, m) ==
    Ptr([HasPermission |-> h, Implementation |-> i, ErrorMessage |-> m])

\* a (response, error) pair as returned by every CheckPermission
Pair(r, e) == [resp |-> r, err |-> e]

\* ------------------------------------------------------------------------
\* Requests
\* ------------------------------------------------------------------------

CtxKeys == {"implementation", "amount"}

\* values a context entry may take: the four recognized selectors and two
\* unrecognized ones
CtxValues == {"spicedb", "neo4j", "graphql", "both", "SpiceDB", "1000"}

\* req.Context: a map[string]string
Contexts == UNION {[D -> CtxValues] : D \in SUBSET CtxKeys}

\* req.Permission: one name the Neo4j client maps to a query, one it rejects
Permissions == {"can_access", "bogus"}

Requests == [Context : Contexts, Permission : Permissions]

\* ------------------------------------------------------------------------
\* Evaluators: what each client's CheckPermission can return
\* ------------------------------------------------------------------------

\* spicedb.Client.CheckPermission
SpiceOutcomes(r) ==
    {Pair(Response(FALSE, "UNSPECIFIED", <<"rpc error">>), <<"rpc error">>)}
    \cup {Pair(Response(b, "UNSPECIFIED", <<>>), NoErr) : b \in BOOLEAN}
    \cup (IF DOMAIN r.Context # {}
          THEN {Pair(Response(FALSE, "UNSPECIFIED",
                              <<"failed to create context: ", "invalid UTF-8">>),
                     <<"invalid UTF-8">>)}
          ELSE {Pair(Response(FALSE, "UNSPECIFIED",
                     <<"conditional permission requires context but none was provided">>),
                     NoErr)})

\* neo4j.Client.getPermissionQuery
getPermissionQuery(permission) ==
    IF permission = "can_access"
    THEN NoErr
    ELSE <<"unsupported permission: ", permission>>

\* neo4j.Client.CheckPermission
Neo4jOutcomes(r) ==
    IF getPermissionQuery(r.Permission) # NoErr
    THEN {Pair(Nil, getPermissionQuery(r.Permission))}
    ELSE {Pair(Nil, <<"failed to execute Neo4j query: ", "connection refused">>)}
         \cup {Pair(Response(b, "NEO4J", <<>>), NoErr) : b \in BOOLEAN}

\* graphql.Client.CheckPermission
GraphQLOutcomes(r) ==
    {Pair(Response(FALSE, "UNSPECIFIED",
                   <<"failed to make GraphQL request: ", "connection refused">>),
          NoErr)}
    \cup {Pair(Response(b, "GRAPHQL", <<>>), NoErr) : b \in BOOLEAN}

\* the values NewService stores: nil or a client
Clients == {"nil", "client"}

Services == [Spice : Clients, Neo4j : Clients, GraphQL : Clients]

\* NewService
NewService(spice, neo4j, gql) == [Spice |-> spice, Neo4j |-> neo4j, GraphQL |-> gql]

\* a bug: a call clears the reference to the Neo4j client
ServiceAfterCallCleared(s) == [s EXCEPT !.Neo4j = "nil"]

\* the Service after a call of one of its methods: CheckPermission and
\* checkBothImplementations read s.Spice, s.Neo4j and s.GraphQL and assign none
ServiceAfterCall(s) == s

\* ------------------------------------------------------------------------
\* Router: Service.CheckPermission
\* ------------------------------------------------------------------------

\* a bug: the selector is looked for in every entry of the context
SelectImplementationAnyEntry(r) ==
    IF \E k \in DOMAIN r.Context : r.Context[k] = "neo4j" THEN "NEO4J"
    ELSE IF \E k \in DOMAIN r.Context : r.Context[k] = "graphql" THEN "GRAPHQL"
    ELSE IF \E k \in DOMAIN r.Context : r.Context[k] = "both" THEN "BOTH"
    ELSE "SPICEDB"

\* the switch on req.Context["implementation"]
SelectImplementation(r) ==
    IF "implementation" \in DOMAIN r.Context
    THEN CASE r.Context["implementation"] = "spicedb" -> "SPICEDB"
           [] r.Context["implementation"] = "neo4j"   -> "NEO4J"
           [] r.Context["implementation"] = "graphql" -> "GRAPHQL"
           [] r.Context["implementation"] = "both"    -> "BOTH"
           [] OTHER                                   -> "SPICEDB"
    ELSE "SPICEDB"

\* a bug: every single-backend case calls the SpiceDB client
FieldOfDefaultCase(impl) == "Spice"

\* the name of the Service field that serves a single-backend implementation
FieldOf(impl) ==
    CASE impl = "NEO4J"   -> "Neo4j"
      [] impl = "GRAPHQL" -> "GraphQL"
      [] OTHER            -> "Spice"

\* a bug: a nil client is reported as an error of the call
NotAvailableAsError(impl) ==
    Pair(Nil, <<impl, " backend ", "not available">>)

\* the response synthesized when the selected client is nil
NotAvailable(impl) ==
    CASE impl = "NEO4J" ->
           Pair(Response(FALSE, "NEO4J",
                <<"Neo4j backend ", "not available",
                  " - please ensure Neo4j is running on localhost:7687">>), NoErr)
      [] impl = "GRAPHQL" ->
           Pair(Response(FALSE, "GRAPHQL",
                <<"GraphQL backend ", "not available",
                  " - please ensure GraphQL is running on localhost:4000">>), NoErr)
      [] OTHER ->
           Pair(Response(FALSE, "SPICEDB",
                <<"SpiceDB backend ", "not available",
                  " - please ensure SpiceDB is running on localhost:50051">>), NoErr)

\* what s.<field>.CheckPermission(ctx, req) can return
EvalOutcomes(field, r) ==
    CASE field = "Neo4j"   -> Neo4jOutcomes(r)
      [] field = "GraphQL" -> GraphQLOutcomes(r)
      [] OTHER             -> SpiceOutcomes(r)

\* ------------------------------------------------------------------------
\* Comparator: Service.checkBothImplementations
\* ------------------------------------------------------------------------

\* a bug: a missing SpiceDB client leaves spiceErr nil
SpiceMissingErrUnset == NoErr

\* a bug: a missing Neo4j client leaves neo4jErr nil
Neo4jMissingErrUnset == NoErr

\* fmt.Errorf("SpiceDB backend not available") / fmt.Errorf("Neo4j backend not available")
SpiceMissingErr == <<"SpiceDB backend ", "not available">>

Neo4jMissingErr == <<"Neo4j backend ", "not available">>

\* the body of the first goroutine: the pairs it can leave in spiceResult, spiceErr
SpiceSide(s, r) ==
    IF s.Spice # "nil" THEN SpiceOutcomes(r) ELSE {Pair(Nil, SpiceMissingErr)}

\* the body of the second goroutine
Neo4jSide(s, r) ==
    IF s.Neo4j # "nil" THEN Neo4jOutcomes(r) ELSE {Pair(Nil, Neo4jMissingErr)}

\* a bug: the overwrite builds the object anew and loses the decision
OverwriteAll(p, impl, msg) ==
    Ptr([HasPermission |-> FALSE, Implementation |-> impl, ErrorMessage |-> msg])

\* *p with Implementation and ErrorMessage overwritten
Overwrite(p, impl, msg) ==
    Ptr([Deref(p) EXCEPT !.Implementation = impl, !.ErrorMessage = msg])

\* a bug: both failures surface as an error of the call
BothFailedAsError(se, ne) ==
    Pair(Nil, <<"Both backends unavailable - SpiceDB: ">> \o se \o <<", Neo4j: ">> \o ne)

\* both sides have an error: the combined response
BothFailed(se, ne) ==
    Pair(Response(FALSE, "BOTH",
                  <<"Both backends unavailable - SpiceDB: ">> \o se
                  \o <<", Neo4j: ">> \o ne), NoErr)

\* a bug: the Neo4j response is returned with its own tag and message
UseNeo4jOnlyUntouched(nr) == nr

\* only SpiceDB has an error: the Neo4j response object, rewritten
UseNeo4jOnly(nr) ==
    Overwrite(nr, "BOTH",
              <<"SpiceDB unavailable, using Neo4j only: ">> \o Deref(nr).ErrorMessage)

\* a bug: the SpiceDB response is returned as the client built it
UseSpiceOnlyUntouched(sr) == sr

\* only Neo4j has an error: the SpiceDB response object, rewritten
UseSpiceOnly(sr) ==
    Overwrite(sr, "BOTH",
              <<"Neo4j unavailable, using SpiceDB only: ">> \o Deref(sr).ErrorMessage)

\* a bug: on a mismatch the secondary's decision is taken
BothSucceededSecondaryWins(sr, nr) ==
    Ptr([Deref(sr) EXCEPT !.Implementation = "BOTH",
                          !.HasPermission = Deref(nr).HasPermission])

\* both sides have a response: the SpiceDB response object, tagged BOTH
BothSucceeded(sr, nr) == Overwrite(sr, "BOTH", Deref(sr).ErrorMessage)

\* the line printed when both sides have a response
Comparison(sr, nr) ==
    IF Deref(sr).HasPermission # Deref(nr).HasPermission
    THEN <<"MISMATCH">> ELSE <<"MATCH">>

\* the reconciliation after both channels are closed.  The result names the
\* returned pair, the two response objects as the code leaves them, and the
\* lines printed.
Reconcile(sr, se, nr, ne) ==
    IF se # NoErr /\ ne # NoErr
    THEN [ret |-> BothFailed(se, ne),
          spiceResult |-> sr, neo4jResult |-> nr, printed |-> <<>>]
    ELSE IF se # NoErr /\ ~IsNil(nr)
    THEN [ret |-> Pair(UseNeo4jOnly(nr), NoErr),
          spiceResult |-> sr, neo4jResult |-> UseNeo4jOnly(nr),
          printed |-> <<"SpiceDB error (using Neo4j only)">>]
    ELSE IF ne # NoErr /\ ~IsNil(sr)
    THEN [ret |-> Pair(UseSpiceOnly(sr), NoErr),
          spiceResult |-> UseSpiceOnly(sr), neo4jResult |-> nr,
          printed |-> (IF se # NoErr
                       THEN <<"SpiceDB error (using Neo4j only)">> ELSE <<>>)
                      \o <<"Neo4j error (using SpiceDB only)">>]
    ELSE LET before == (IF se # NoErr
                        THEN <<"SpiceDB error (using Neo4j only)">> ELSE <<>>)
                       \o (IF ne # NoErr
                           THEN <<"Neo4j error (using SpiceDB only)">> ELSE <<>>)
         IN  IF ~IsNil(sr) /\ ~IsNil(nr)
             THEN [ret |-> Pair(BothSucceeded(sr, nr), NoErr),
                   spiceResult |-> BothSucceeded(sr, nr), neo4jResult |-> nr,
                   printed |-> before \o Comparison(sr, nr)]
             ELSE [ret |-> Pair(Nil, <<"unexpected state in both implementations check">>),
                   spiceResult |-> sr, neo4jResult |-> nr, printed |-> before]

\* every pair the Router can return for request r on service s
RouterOutcomes(s, r) ==
    LET impl == SelectImplementation(r) IN
    IF impl = "BOTH"
    THEN {Reconcile(so.resp, so.err, no.resp, no.err).ret :
              so \in SpiceSide(s, r), no \in Neo4jSide(s, r)}
    ELSE IF s[FieldOf(impl)] = "nil"
         THEN {NotAvailable(impl)}
         ELSE EvalOutcomes(FieldOf(impl), r)

\* ------------------------------------------------------------------------
\* State
\* ------------------------------------------------------------------------

VARIABLES
    svc,            \* the Service built by NewService
    \* one server.CheckPermission call
    pc,             \* position of the call
    req,            \* its request
    implementation, \* the local variable of Service.CheckPermission
    evalPc,         \* single-backend call: "none", "calling" or "returned"
    spicePc,        \* first goroutine of the Comparator
    neo4jPc,        \* second goroutine of the Comparator
    spiceResult, spiceErr, neo4jResult, neo4jErr,
    ret,            \* the pair the call returned
    stdout,         \* lines printed by the Comparator
    returned,       \* per Service field, the pairs its client has returned so far
    firstClosed,    \* the goroutine of the Comparator that finished first
    \* one server.CheckBulkPermissions call
    bpc,            \* position of the handler
    requests,       \* req.Requests
    maxConcurrency, \* req.MaxConcurrency
    launched,       \* number of goroutines started by the loop
    sem,            \* number of elements in the channel sem
    wg,             \* the WaitGroup counter
    wpc,            \* position of each worker goroutine
    routed,         \* each worker's local resp, err
    responses, successCount, errorCount,
    outOfOrder,     \* some worker wrote its slot before a worker of a lower index
    bulkRet,        \* the BulkPermissionResponse returned
    \* one server.Benchmark call
    benchPc,        \* position of the handler
    benchReq,       \* its BenchmarkRequest
    caseIdx,        \* number of the test case runBenchmarkTest is running
    times,          \* the latency slice of the running case
    recorded,       \* ghost: how many times each slot of times was assigned
    benchLaunched,  \* number of goroutines started by the loop of the case
    benchSem,       \* number of elements in the channel sem of the case
    benchWg,        \* the WaitGroup counter of the case
    benchWpc,       \* position of each iteration's goroutine
    benchSuccessCount, failedCount,
    routedTo,       \* the backends the Router selected during the run
    asExpected,     \* calls of the case that returned no error and the expected decision
    results, totalRequests,
    benchRet,       \* the BenchmarkResponse returned
    \* one computation of the latency statistics
    samples,        \* a latency slice
    statistics,     \* the statistics computed from it
    \* one server.Health call
    healthPc,       \* position of the handler
    healthReq,      \* its HealthRequest
    healthRet,      \* the HealthResponse and the error returned
    \* one server.StreamPermissionChecks call
    streamPc,       \* position of the handler
    streamIn,       \* what stream.Recv will still deliver
    streamReq,      \* the local variable req
    streamResp,     \* the local variable resp
    streamSent,     \* the responses stream.Send has delivered
    streamRecvd,    \* ghost: the requests stream.Recv has delivered
    streamRouted,   \* ghost: the pairs the Router returned, in call order
    streamRet       \* the error returned

routerVars == <<pc, req, implementation, evalPc, spicePc, neo4jPc, spiceResult,
                spiceErr, neo4jResult, neo4jErr, ret, stdout, returned,
                firstClosed>>

bulkVars == <<bpc, requests, maxConcurrency, launched, sem, wg, wpc, routed,
              responses, successCount, errorCount, outOfOrder, bulkRet>>

benchVars == <<benchPc, benchReq, caseIdx, times, recorded, benchLaunched, benchSem, benchWg,
               benchWpc, benchSuccessCount, failedCount, routedTo, asExpected,
               results, totalRequests, benchRet>>

statVars == <<samples, statistics>>

healthVars == <<healthPc, healthReq, healthRet>>

streamVars == <<streamPc, streamIn, streamReq, streamResp, streamSent, streamRecvd,
                streamRouted, streamRet>>

rpcVars == <<healthVars, streamVars>>

vars == <<svc, routerVars, bulkVars, benchVars, statVars, rpcVars>>

NoRequest == [Context |-> <<>>, Permission |-> ""]

NoPair == Pair(Nil, NoErr)

NothingReturned == [Spice |-> <<>>, Neo4j |-> <<>>, GraphQL |-> <<>>]

RouterIdle ==
    /\ pc = "idle"
    /\ req = NoRequest
    /\ implementation = "UNSPECIFIED"
    /\ evalPc = "none"
    /\ spicePc = "none"
    /\ neo4jPc = "none"
    /\ spiceResult = Nil
    /\ spiceErr = NoErr
    /\ neo4jResult = Nil
    /\ neo4jErr = NoErr
    /\ ret = NoPair
    /\ stdout = <<>>
    /\ returned = NothingReturned
    /\ firstClosed = "none"

\* the BenchmarkRequest before a call
NoBenchRequest ==
    [TestCases |-> <<>>, Iterations |-> 0, Concurrency |-> 0,
     Implementation |-> "UNSPECIFIED"]

\* &pb.BenchmarkSummary{}
EmptySummary ==
    [TotalTimeMs |-> 0, TotalRequests |-> 0, Implementation |-> "UNSPECIFIED"]

\* the handler's result before it has returned
NoBenchResponse == [Results |-> <<>>, Summary |-> EmptySummary, Err |-> NoErr]

BenchIdle ==
    /\ benchPc = "idle"
    /\ benchReq = NoBenchRequest
    /\ caseIdx = 0
    /\ times = <<>>
    /\ recorded = <<>>
    /\ benchLaunched = 0
    /\ benchSem = 0
    /\ benchWg = 0
    /\ benchWpc = <<>>
    /\ benchSuccessCount = 0
    /\ failedCount = 0
    /\ routedTo = {}
    /\ asExpected = 0
    /\ results = <<>>
    /\ totalRequests = 0
    /\ benchRet = NoBenchResponse

StatIdle ==
    /\ samples = <<>>
    /\ statistics = Nil

\* the HealthRequest before a call
NoHealthRequest == [Implementation |-> "UNSPECIFIED"]

\* the handler's result before it has returned
NoHealthResponse ==
    [Healthy |-> FALSE, Implementation |-> "UNSPECIFIED", StatusMessage |-> "",
     Err |-> NoErr]

HealthIdle ==
    /\ healthPc = "idle"
    /\ healthReq = NoHealthRequest
    /\ healthRet = NoHealthResponse

\* what a stream delivers before a call: nothing
NoStream == [Requests |-> <<>>, End |-> <<>>]

StreamIdle ==
    /\ streamPc = "idle"
    /\ streamIn = NoStream
    /\ streamReq = NoRequest
    /\ streamResp = Nil
    /\ streamSent = <<>>
    /\ streamRecvd = <<>>
    /\ streamRouted = <<>>
    /\ streamRet = NoErr

RpcIdle == HealthIdle /\ StreamIdle

\* the handler's result before it has returned
NoBulkResponse ==
    [Responses |-> <<>>, TotalTimeMs |-> 0, SuccessCount |-> 0, ErrorCount |-> 0,
     Err |-> NoErr]

BulkIdle ==
    /\ bpc = "idle"
    /\ requests = <<>>
    /\ maxConcurrency = 0
    /\ launched = 0
    /\ sem = 0
    /\ wg = 0
    /\ wpc = <<>>
    /\ routed = <<>>
    /\ responses = <<>>
    /\ successCount = 0
    /\ errorCount = 0
    /\ outOfOrder = FALSE
    /\ bulkRet = NoBulkResponse

\* ------------------------------------------------------------------------
\* server.CheckPermission -> Service.CheckPermission, step by step
\* ------------------------------------------------------------------------

\* server.CheckPermission is entered with request r; the Router reads the hint
ServerCheckPermission(r) ==
    /\ pc = "idle"
    /\ req' = r
    /\ implementation' = SelectImplementation(r)
    /\ pc' = "switch"
    /\ UNCHANGED <<svc, evalPc, spicePc, neo4jPc, spiceResult, spiceErr,
                   neo4jResult, neo4jErr, ret, stdout, returned, firstClosed,
                   bulkVars, benchVars, statVars, rpcVars>>

\* a single-backend case whose client is nil: the synthesized response
RouteNotAvailable ==
    /\ svc' = ServiceAfterCall(svc)
    /\ pc = "switch"
    /\ implementation # "BOTH"
    /\ svc[FieldOf(implementation)] = "nil"
    /\ ret' = NotAvailable(implementation)
    /\ pc' = "returned"
    /\ UNCHANGED <<req, implementation, evalPc, spicePc, neo4jPc, spiceResult,
                   spiceErr, neo4jResult, neo4jErr, stdout, returned, firstClosed,
                   bulkVars, benchVars, statVars, rpcVars>>

\* a single-backend case whose client is set: the client is called
RouteCall ==
    /\ pc = "switch"
    /\ implementation # "BOTH"
    /\ svc[FieldOf(implementation)] # "nil"
    /\ evalPc' = "calling"
    /\ pc' = "call"
    /\ UNCHANGED <<svc, req, implementation, spicePc, neo4jPc, spiceResult, spiceErr,
                   neo4jResult, neo4jErr, ret, stdout, returned, firstClosed,
                   bulkVars, benchVars, statVars, rpcVars>>

\* a bug, or another design: the error is turned into a negative response
PropagateRecovered(o) ==
    IF o.err # NoErr THEN Pair(Response(FALSE, "UNSPECIFIED", o.err), NoErr) ELSE o

\* "return s.<field>.CheckPermission(ctx, req)": the pair goes to the caller as it is
Propagate(o) == o

\* the client returns and the Router returns what it got
RouteReturn ==
    /\ svc' = ServiceAfterCall(svc)
    /\ pc = "call"
    /\ evalPc = "calling"
    /\ \E o \in EvalOutcomes(FieldOf(implementation), req) :
          /\ ret' = Propagate(o)
          /\ returned' = [returned EXCEPT ![FieldOf(implementation)] = Append(@, o)]
    /\ evalPc' = "returned"
    /\ pc' = "returned"
    /\ UNCHANGED <<req, implementation, spicePc, neo4jPc, spiceResult, spiceErr,
                   neo4jResult, neo4jErr, stdout, firstClosed,
                   bulkVars, benchVars, statVars, rpcVars>>

\* the goroutine that finished first, when goroutine g finishes
FirstToClose(first, g) == IF first = "none" THEN g ELSE first

\* case BOTH: checkBothImplementations starts its two goroutines
BothStart ==
    /\ pc = "switch"
    /\ implementation = "BOTH"
    /\ spicePc' = "started"
    /\ neo4jPc' = "started"
    /\ pc' = "waitSpice"
    /\ UNCHANGED <<svc, req, implementation, evalPc, spiceResult, spiceErr,
                   neo4jResult, neo4jErr, ret, stdout, returned, firstClosed,
                   bulkVars, benchVars, statVars, rpcVars>>

\* first goroutine: nil client, so only the error is set; the channel closes
SpiceMissing ==
    /\ spicePc = "started"
    /\ svc.Spice = "nil"
    /\ spiceErr' = SpiceMissingErr
    /\ spicePc' = "closed"
    /\ firstClosed' = FirstToClose(firstClosed, "spice")
    /\ UNCHANGED <<svc, pc, req, implementation, evalPc, neo4jPc, spiceResult,
                   neo4jResult, neo4jErr, ret, stdout, returned, bulkVars, benchVars, statVars, rpcVars>>

\* first goroutine: the client is called
SpiceCall ==
    /\ spicePc = "started"
    /\ svc.Spice # "nil"
    /\ spicePc' = "calling"
    /\ UNCHANGED <<svc, pc, req, implementation, evalPc, neo4jPc, spiceResult, spiceErr,
                   neo4jResult, neo4jErr, ret, stdout, returned, firstClosed,
                   bulkVars, benchVars, statVars, rpcVars>>

\* first goroutine: the client returns, the results are assigned, the channel closes
SpiceReturn ==
    /\ spicePc = "calling"
    /\ \E o \in SpiceOutcomes(req) :
          /\ spiceResult' = o.resp
          /\ spiceErr' = o.err
          /\ returned' = [returned EXCEPT !.Spice = Append(@, o)]
    /\ spicePc' = "closed"
    /\ firstClosed' = FirstToClose(firstClosed, "spice")
    /\ UNCHANGED <<svc, pc, req, implementation, evalPc, neo4jPc,
                   neo4jResult, neo4jErr, ret, stdout, bulkVars, benchVars, statVars, rpcVars>>

\* second goroutine, nil client
Neo4jMissing ==
    /\ neo4jPc = "started"
    /\ svc.Neo4j = "nil"
    /\ neo4jErr' = Neo4jMissingErr
    /\ neo4jPc' = "closed"
    /\ firstClosed' = FirstToClose(firstClosed, "neo4j")
    /\ UNCHANGED <<svc, pc, req, implementation, evalPc, spicePc, spiceResult, spiceErr,
                   neo4jResult, ret, stdout, returned, bulkVars, benchVars, statVars, rpcVars>>

\* second goroutine: the client is called
Neo4jCall ==
    /\ neo4jPc = "started"
    /\ svc.Neo4j # "nil"
    /\ neo4jPc' = "calling"
    /\ UNCHANGED <<svc, pc, req, implementation, evalPc, spicePc, spiceResult, spiceErr,
                   neo4jResult, neo4jErr, ret, stdout, returned, firstClosed,
                   bulkVars, benchVars, statVars, rpcVars>>

\* second goroutine: the client returns
Neo4jReturn ==
    /\ neo4jPc = "calling"
    /\ \E o \in Neo4jOutcomes(req) :
          /\ neo4jResult' = o.resp
          /\ neo4jErr' = o.err
          /\ returned' = [returned EXCEPT !.Neo4j = Append(@, o)]
    /\ neo4jPc' = "closed"
    /\ firstClosed' = FirstToClose(firstClosed, "neo4j")
    /\ UNCHANGED <<svc, pc, req, implementation, evalPc, spicePc, spiceResult, spiceErr,
                   ret, stdout, bulkVars, benchVars, statVars, rpcVars>>

\* a bug: the receive does not wait for the close
ClosedOrRunning(goroutinePc) == goroutinePc # "none"

\* a bug: the receive gives up on a goroutine whose client call is in progress
ClosedOrTimedOut(goroutinePc) == goroutinePc \in {"calling", "closed"}

\* a receive from a channel succeeds once the channel is closed
Closed(goroutinePc) == goroutinePc = "closed"

\* <-spiceChan
WaitSpice ==
    /\ pc = "waitSpice"
    /\ Closed(spicePc)
    /\ pc' = "waitNeo4j"
    /\ UNCHANGED <<svc, req, implementation, evalPc, spicePc, neo4jPc, spiceResult,
                   spiceErr, neo4jResult, neo4jErr, ret, stdout, returned, firstClosed,
                   bulkVars, benchVars, statVars, rpcVars>>

\* <-neo4jChan
WaitNeo4j ==
    /\ pc = "waitNeo4j"
    /\ Closed(neo4jPc)
    /\ pc' = "reconcile"
    /\ UNCHANGED <<svc, req, implementation, evalPc, spicePc, neo4jPc, spiceResult,
                   spiceErr, neo4jResult, neo4jErr, ret, stdout, returned, firstClosed,
                   bulkVars, benchVars, statVars, rpcVars>>

\* a bug: the goroutine that finished first is taken as the primary
BothReturnFirstWins ==
    /\ svc' = ServiceAfterCall(svc)
    /\ pc = "reconcile"
    /\ LET out == IF firstClosed = "neo4j"
                  THEN Reconcile(neo4jResult, neo4jErr, spiceResult, spiceErr)
                  ELSE Reconcile(spiceResult, spiceErr, neo4jResult, neo4jErr) IN
          /\ ret' = out.ret
          /\ spiceResult' = out.spiceResult
          /\ neo4jResult' = out.neo4jResult
          /\ stdout' = stdout \o out.printed
    /\ pc' = "returned"
    /\ UNCHANGED <<req, implementation, evalPc, spicePc, neo4jPc, spiceErr,
                   neo4jErr, returned, firstClosed,
                   bulkVars, benchVars, statVars, rpcVars>>

\* the reconciliation, and the return of the call
BothReturn ==
    /\ svc' = ServiceAfterCall(svc)
    /\ pc = "reconcile"
    /\ LET out == Reconcile(spiceResult, spiceErr, neo4jResult, neo4jErr) IN
          /\ ret' = out.ret
          /\ spiceResult' = out.spiceResult
          /\ neo4jResult' = out.neo4jResult
          /\ stdout' = stdout \o out.printed
    /\ pc' = "returned"
    /\ UNCHANGED <<req, implementation, evalPc, spicePc, neo4jPc, spiceErr,
                   neo4jErr, returned, firstClosed,
                   bulkVars, benchVars, statVars, rpcVars>>

Init ==
    /\ \E spice \in Clients, neo4j \in Clients, gql \in Clients :
          svc = NewService(spice, neo4j, gql)
    /\ RouterIdle
    /\ BulkIdle
    /\ BenchIdle
    /\ StatIdle
    /\ RpcIdle

Next ==
    \/ \E r \in Requests : ServerCheckPermission(r)
    \/ RouteNotAvailable
    \/ RouteCall
    \/ RouteReturn
    \/ BothStart
    \/ SpiceMissing
    \/ SpiceCall
    \/ SpiceReturn
    \/ Neo4jMissing
    \/ Neo4jCall
    \/ Neo4jReturn
    \/ WaitSpice
    \/ WaitNeo4j
    \/ BothReturn

Spec == Init /\ [][Next]_vars

\* the Go scheduler runs a goroutine that can take a step: the handler's
\* goroutine is not starved once a channel it waits for is closed
SpecFair ==
    /\ Init
    /\ [][Next]_vars
    /\ WF_vars(WaitSpice)
    /\ WF_vars(WaitNeo4j)
    /\ WF_vars(BothReturn)

\* ------------------------------------------------------------------------
\* The Comparator over any implementation of the client interfaces
\* ------------------------------------------------------------------------

\* the pairs a value of the interface type can return: a response or nil,
\* with an error or nil
InterfaceOutcomes ==
    {Pair(r, e) : r \in {Nil} \cup {Response(b, "UNSPECIFIED", <<>>) : b \in BOOLEAN},
                  e \in {NoErr, <<"evaluation failed">>}}

\* requests that take the case BOTH of the Router
BothRequests == {r \in Requests : SelectImplementation(r) = "BOTH"}

\* first goroutine: s.Spice.CheckPermission returns, whatever client it is
SpiceReturnsAny ==
    /\ spicePc = "calling"
    /\ \E o \in InterfaceOutcomes :
          /\ spiceResult' = o.resp
          /\ spiceErr' = o.err
          /\ returned' = [returned EXCEPT !.Spice = Append(@, o)]
    /\ spicePc' = "closed"
    /\ firstClosed' = FirstToClose(firstClosed, "spice")
    /\ UNCHANGED <<svc, pc, req, implementation, evalPc, neo4jPc,
                   neo4jResult, neo4jErr, ret, stdout, bulkVars, benchVars, statVars, rpcVars>>

\* second goroutine: s.Neo4j.CheckPermission returns, whatever client it is
Neo4jReturnsAny ==
    /\ neo4jPc = "calling"
    /\ \E o \in InterfaceOutcomes :
          /\ neo4jResult' = o.resp
          /\ neo4jErr' = o.err
          /\ returned' = [returned EXCEPT !.Neo4j = Append(@, o)]
    /\ neo4jPc' = "closed"
    /\ firstClosed' = FirstToClose(firstClosed, "neo4j")
    /\ UNCHANGED <<svc, pc, req, implementation, evalPc, spicePc, spiceResult, spiceErr,
                   ret, stdout, bulkVars, benchVars, statVars, rpcVars>>

NextInterface ==
    \/ \E r \in BothRequests : ServerCheckPermission(r)
    \/ BothStart
    \/ SpiceMissing
    \/ SpiceCall
    \/ SpiceReturnsAny
    \/ Neo4jMissing
    \/ Neo4jCall
    \/ Neo4jReturnsAny
    \/ WaitSpice
    \/ WaitNeo4j
    \/ BothReturn

SpecInterface == Init /\ [][NextInterface]_vars

\* ------------------------------------------------------------------------
\* server.CheckBulkPermissions
\* ------------------------------------------------------------------------

\* requests a batch is made of: a Neo4j check of a permission the Neo4j client
\* rejects, and a Comparator check of the same permission
BulkRequests ==
    {[Context |-> [k \in {"implementation"} |-> "neo4j"], Permission |-> "bogus"],
     [Context |-> [k \in {"implementation"} |-> "both"], Permission |-> "bogus"]}

Batches == UNION {[1..n -> BulkRequests] : n \in 0..MaxRequests}

\* the values of req.MaxConcurrency tried with a batch of n requests
Ceilings(n) == (-1)..(n + MaxCeilingSlack)

\* the services a batch is run on
BulkServices == {NewService("client", "client", "client"),
                 NewService("client", "nil", "client")}

\* capacity of the channel sem
\* a bug: the gate is made with room for two calls per unit of the ceiling
SemCapacityDoubled(mc, n) == IF mc <= 0 THEN n ELSE 2 * mc

\* a bug: a ceiling that is not positive is taken as 1, as the benchmark does
SemCapacitySequential(mc, n) == IF mc <= 0 THEN 1 ELSE mc

SemCapacity(mc, n) == IF mc <= 0 THEN n ELSE mc

\* a bug: the send never blocks
CanSendAlways(s, cap) == TRUE

\* "sem <- struct{}{}" proceeds only while the buffer has room
CanSend(s, cap) == s < cap

\* a bug: the handler does not wait for the workers
WaitDoneNoBarrier(w) == TRUE

\* wg.Wait() returns once the counter is zero
WaitDone(w) == w = 0

\* the value a worker writes to its slot
\* a bug: the slot of a failed item is left as the Router returned it
BulkSlotAsReturned(o) == o.resp

BulkSlot(o) ==
    IF o.err # NoErr THEN Response(FALSE, "UNSPECIFIED", o.err) ELSE o.resp

\* a bug: results are collected in completion order
StoreResponseInCompletionOrder(resps, idx, val) ==
    LET free == {k \in DOMAIN resps : IsNil(resps[k])}
        first == CHOOSE k \in free : \A m \in free : k <= m
    IN  [resps EXCEPT ![first] = val]

\* a bug: the goroutines share the loop variable and write the last slot
StoreResponseLastSlot(resps, idx, val) == [resps EXCEPT ![Len(resps)] = val]

\* responses[idx] = val
StoreResponse(resps, idx, val) == [resps EXCEPT ![idx] = val]

\* a bug: failed items are not counted
BulkCountErrorsDropped(sc, ec, err) ==
    IF err # NoErr
    THEN [success |-> sc, error |-> ec]
    ELSE [success |-> sc + 1, error |-> ec]

\* a bug: the two branches add to each other's counter
BulkCountSwapped(sc, ec, err) ==
    IF err # NoErr
    THEN [success |-> sc + 1, error |-> ec]
    ELSE [success |-> sc, error |-> ec + 1]

\* the atomic.AddInt32 a worker performs
BulkCount(sc, ec, err) ==
    IF err # NoErr
    THEN [success |-> sc, error |-> ec + 1]
    ELSE [success |-> sc + 1, error |-> ec]

\* the handler is entered: the empty batch returns at once, otherwise the
\* slots, counters and semaphore are set up
\* a bug: the empty batch takes the general path
EmptyBatchNever(reqs) == FALSE

\* len(req.Requests) == 0
EmptyBatch(reqs) == Len(reqs) = 0

\* the response to the empty batch, with a nil error
EmptyBulkResponse ==
    [Responses |-> <<>>, TotalTimeMs |-> 0, SuccessCount |-> 0, ErrorCount |-> 0,
     Err |-> NoErr]

\* readings of time.Since(startTime).Milliseconds()
ElapsedMs == 0..MaxElapsedMs

CheckBulkPermissions(reqs, mc) ==
    /\ bpc = "idle"
    /\ requests' = reqs
    /\ maxConcurrency' = mc
    /\ IF EmptyBatch(reqs)
       THEN /\ bpc' = "returned"
            /\ bulkRet' = EmptyBulkResponse
            /\ UNCHANGED <<responses, wpc, routed>>
       ELSE /\ bpc' = "running"
            /\ responses' = [i \in 1..Len(reqs) |-> Nil]
            /\ wpc' = [i \in 1..Len(reqs) |-> "unlaunched"]
            /\ routed' = [i \in 1..Len(reqs) |-> NoPair]
            /\ UNCHANGED bulkRet
    /\ UNCHANGED <<svc, routerVars, benchVars, statVars, rpcVars, launched, sem, wg, successCount, errorCount, outOfOrder>>

\* one turn of the loop: wg.Add(1) and go func(idx, request)
Launch ==
    /\ bpc = "running"
    /\ launched < Len(requests)
    /\ launched' = launched + 1
    /\ wg' = wg + 1
    /\ wpc' = [wpc EXCEPT ![launched + 1] = "start"]
    /\ UNCHANGED <<svc, routerVars, benchVars, statVars, rpcVars, bpc, requests, maxConcurrency, sem, routed,
                   responses, successCount, errorCount, outOfOrder, bulkRet>>

\* sem <- struct{}{}, then s.svc.CheckPermission(ctx, request) is entered
Acquire(i) ==
    /\ wpc[i] = "start"
    /\ CanSend(sem, SemCapacity(maxConcurrency, Len(requests)))
    /\ sem' = sem + 1
    /\ wpc' = [wpc EXCEPT ![i] = "incall"]
    /\ UNCHANGED <<svc, routerVars, benchVars, statVars, rpcVars, bpc, requests, maxConcurrency, launched, wg, routed,
                   responses, successCount, errorCount, outOfOrder, bulkRet>>

\* the Router returns resp, err and the worker writes responses[idx]
Store(i) ==
    /\ svc' = ServiceAfterCall(svc)
    /\ wpc[i] = "incall"
    /\ \E o \in RouterOutcomes(svc, requests[i]) :
          /\ routed' = [routed EXCEPT ![i] = o]
          /\ responses' = StoreResponse(responses, i, BulkSlot(o))
    /\ outOfOrder' = (outOfOrder \/ \E j \in 1..(i - 1) :
                                       wpc[j] \in {"unlaunched", "start", "incall"})
    /\ wpc' = [wpc EXCEPT ![i] = "stored"]
    /\ UNCHANGED <<routerVars, benchVars, statVars, rpcVars, bpc, requests, maxConcurrency, launched, sem, wg,
                   successCount, errorCount, bulkRet>>

\* atomic.AddInt32(&errorCount, 1) or atomic.AddInt32(&successCount, 1)
Count(i) ==
    /\ wpc[i] = "stored"
    /\ LET c == BulkCount(successCount, errorCount, routed[i].err) IN
          /\ successCount' = c.success
          /\ errorCount' = c.error
    /\ wpc' = [wpc EXCEPT ![i] = "counted"]
    /\ UNCHANGED <<svc, routerVars, benchVars, statVars, rpcVars, bpc, requests, maxConcurrency, launched, sem, wg,
                   routed, responses, outOfOrder, bulkRet>>

\* deferred: <-sem
\* a bug: the receive is not deferred and is skipped when the call failed
ReleaseSlotOnSuccess(s, o) == IF o.err = NoErr THEN s - 1 ELSE s

\* the deferred <-sem of a worker whose Router call returned o
ReleaseSlot(s, o) == s - 1

Release(i) ==
    /\ wpc[i] = "counted"
    /\ sem' = ReleaseSlot(sem, routed[i])
    /\ wpc' = [wpc EXCEPT ![i] = "released"]
    /\ UNCHANGED <<svc, routerVars, benchVars, statVars, rpcVars, bpc, requests, maxConcurrency, launched, wg, routed,
                   responses, successCount, errorCount, outOfOrder, bulkRet>>

\* deferred: wg.Done()
Done(i) ==
    /\ wpc[i] = "released"
    /\ wg' = wg - 1
    /\ wpc' = [wpc EXCEPT ![i] = "done"]
    /\ UNCHANGED <<svc, routerVars, benchVars, statVars, rpcVars, bpc, requests, maxConcurrency, launched, sem, routed,
                   responses, successCount, errorCount, outOfOrder, bulkRet>>

\* wg.Wait() returns and the response is built
BulkReturn ==
    /\ bpc = "running"
    /\ launched = Len(requests)
    /\ WaitDone(wg)
    /\ \E totalTime \in ElapsedMs :
          bulkRet' = [Responses |-> responses, TotalTimeMs |-> totalTime,
                      SuccessCount |-> successCount, ErrorCount |-> errorCount,
                      Err |-> NoErr]
    /\ bpc' = "returned"
    /\ UNCHANGED <<svc, routerVars, benchVars, statVars, rpcVars, requests, maxConcurrency, launched, sem, wg, wpc,
                   routed, responses, successCount, errorCount, outOfOrder>>

InitBulk ==
    /\ svc \in BulkServices
    /\ RouterIdle
    /\ BulkIdle
    /\ BenchIdle
    /\ StatIdle
    /\ RpcIdle

NextBulk ==
    \/ \E reqs \in Batches : \E mc \in Ceilings(Len(reqs)) : CheckBulkPermissions(reqs, mc)
    \/ Launch
    \/ \E i \in 1..Len(requests) : Acquire(i)
    \/ \E i \in 1..Len(requests) : Store(i)
    \/ \E i \in 1..Len(requests) : Count(i)
    \/ \E i \in 1..Len(requests) : Release(i)
    \/ \E i \in 1..Len(requests) : Done(i)
    \/ BulkReturn

SpecBulk == InitBulk /\ [][NextBulk]_vars

\* ------------------------------------------------------------------------
\* Latency statistics of runBenchmarkTest
\* ------------------------------------------------------------------------

\* time.Since(start).Milliseconds() of one Router call
Latencies == 0..MaxLatencyMs

\* the order sort.Float64s sorts by
Less(a, b) == a < b

\* a bug: the slice is left in index order
SortFloat64sOmitted(ts) == ts

\* sort.Float64s: ascending
SortFloat64s(ts) == SortSeq(ts, Less)

RECURSIVE Sum(_)
Sum(ts) == IF ts = <<>> THEN 0 ELSE Head(ts) + Sum(Tail(ts))

\* the percentages of the two percentiles
P95 == 95
P99 == 99

\* a bug: the index is rounded up
PercentileIndexRoundedUp(n, percent) == (n * percent + 99) \div 100

\* int(float64(len(times)) * 0.95): the product truncated toward zero
PercentileIndex(n, percent) == (n * percent) \div 100

\* the indices a slice of length n has (Go counts from 0)
InRange(index, n) == index \in 0..(n - 1)

\* times[index]
At(ts, index) == ts[index + 1]

\* a float division, kept as the exact fraction
Quotient(a, b) == [num |-> a, den |-> b]

\* the run-time panic of an index expression
IndexOutOfRange(index, n) ==
    [Panic |-> <<"index out of range">>, Index |-> index, Len |-> n]

\* main.go:198-213: the statistics of a latency slice, or the panic
LatencyStatistics(ts) ==
    LET sorted == SortFloat64s(ts)
        n == Len(sorted)
        p95Index == PercentileIndex(n, P95)
        p99Index == PercentileIndex(n, P99)
    IN  IF ~InRange(0, n) THEN IndexOutOfRange(0, n)
        ELSE IF ~InRange(p95Index, n) THEN IndexOutOfRange(p95Index, n)
        ELSE IF ~InRange(p99Index, n) THEN IndexOutOfRange(p99Index, n)
        ELSE [Panic |-> <<>>,
              Min |-> At(sorted, 0),
              Max |-> At(sorted, n - 1),
              Avg |-> Quotient(Sum(sorted), n),
              P95Index |-> p95Index,
              P99Index |-> p99Index,
              P95 |-> At(sorted, p95Index),
              P99 |-> At(sorted, p99Index)]

\* every slice of up to MaxSamples latencies
ShortSlices == UNION {[1..n -> Latencies] : n \in 1..MaxSamples}

\* n distinct latencies, the largest first
Ramp(n) == [i \in 1..n |-> n - i]

SampleSlices == ShortSlices \cup {Ramp(n) : n \in 1..MaxLongSamples}

\* the goroutines have recorded the latencies ts
Measure(ts) ==
    /\ samples = <<>>
    /\ samples' = ts
    /\ UNCHANGED <<svc, routerVars, bulkVars, benchVars, rpcVars, statistics>>

\* the statistics are computed from the recorded latencies
ComputeStatistics ==
    /\ samples # <<>>
    /\ statistics = Nil
    /\ statistics' = Ptr(LatencyStatistics(samples))
    /\ UNCHANGED <<svc, routerVars, bulkVars, benchVars, rpcVars, samples>>

InitStats ==
    /\ svc = NewService("client", "client", "client")
    /\ RouterIdle
    /\ BulkIdle
    /\ BenchIdle
    /\ StatIdle
    /\ RpcIdle

NextStats ==
    \/ \E ts \in SampleSlices : Measure(ts)
    \/ ComputeStatistics

SpecStats == InitStats /\ [][NextStats]_vars

\* ------------------------------------------------------------------------
\* server.Benchmark and server.runBenchmarkTest
\* ------------------------------------------------------------------------

\* pb.BenchmarkTestCase
TestCase(name, ctx, permission, expected) ==
    [Name |-> name, Context |-> ctx, Permission |-> permission,
     ExpectedResult |-> expected]

\* contexts of a test case: no entry, or the hint for the Neo4j backend
BenchContexts == {c \in Contexts : c = <<>> \/ c = [implementation |-> "neo4j"]}

BenchTestCases ==
    {TestCase("case", c, "can_access", e) : c \in BenchContexts, e \in BOOLEAN}

\* req.TestCases: no case or one case
CaseLists == {<<>>} \cup {<<c>> : c \in BenchTestCases}

BenchRequests ==
    [TestCases : CaseLists,
     Iterations : (-1)..MaxIterations,
     Concurrency : (-1)..MaxIterations,
     Implementation : {"SPICEDB", "NEO4J"}]

\* the test case runBenchmarkTest is running
CurrentCase == benchReq.TestCases[caseIdx]

\* the PermissionRequest a goroutine builds from the test case
PermReq(testCase) == [Context |-> testCase.Context, Permission |-> testCase.Permission]

\* a bug: the gate has room for one call more
BenchCapacityOneMore(concurrency) == IF concurrency <= 0 THEN 1 ELSE concurrency + 1

\* the capacity of sem: concurrency, or 1 when it is not positive
BenchCapacity(concurrency) == IF concurrency <= 0 THEN 1 ELSE concurrency

\* a bug: the decision is not compared with the expected one
BenchOutcomeOkAnyDecision(o, expected) == o.err = NoErr

\* the negation of `err != nil || resp.HasPermission != testCase.ExpectedResult`
BenchOutcomeOk(o, expected) ==
    IF o.err # NoErr THEN FALSE ELSE Deref(o.resp).HasPermission = expected

\* a bug: a read and a write in place of the atomic add, an update is lost
AddInt32Racy(counter, delta) == IF counter >= 1 THEN counter ELSE counter + delta

\* atomic.AddInt32
AddInt32(counter, delta) == counter + delta

\* a bug: one failed iteration is tolerated
SuccessFlagLenient(failed) == failed <= 1

\* Success: failedCount == 0
SuccessFlag(failed) == failed = 0

\* pb.BenchmarkResult built from the statistics st
BenchmarkResult(name, st, iterations, succeeded, failed, impl) ==
    [TestName |-> name,
     Success |-> SuccessFlag(failed),
     AvgResponseTimeMs |-> st.Avg,
     MinResponseTimeMs |-> st.Min,
     MaxResponseTimeMs |-> st.Max,
     P95ResponseTimeMs |-> st.P95,
     P99ResponseTimeMs |-> st.P99,
     TotalRequests |-> iterations,
     SuccessfulRequests |-> succeeded,
     FailedRequests |-> failed,
     Implementation |-> impl]

\* pb.BenchmarkSummary
BenchmarkSummary(totalTime, total, impl) ==
    [TotalTimeMs |-> totalTime,
     TotalRequests |-> total,
     AvgResponseTimeMs |-> Quotient(totalTime, total),
     ThroughputRps |-> Quotient(total * 1000, totalTime),
     Implementation |-> impl]

\* a bug: the iteration count is not tested
NothingToRunNoCases(breq) == Len(breq.TestCases) = 0

\* len(req.TestCases) == 0 || req.Iterations <= 0
NothingToRun(breq) == Len(breq.TestCases) = 0 \/ breq.Iterations <= 0

\* a bug: the results are collected with append into a slice that already
\* has len(req.TestCases) nil entries, so the first slot is the one filled
StoreResultFirst(rs, k, r) == [rs EXCEPT ![1] = r]

\* results[i] = result
StoreResult(rs, k, r) == [rs EXCEPT ![k] = r]

\* server.Benchmark up to the loop over the test cases
Benchmark(breq) ==
    /\ benchPc = "idle"
    /\ benchReq' = breq
    /\ IF NothingToRun(breq)
       THEN /\ benchPc' = "returned"
            /\ benchRet' = [Results |-> <<>>, Summary |-> EmptySummary, Err |-> NoErr]
            /\ UNCHANGED results
       ELSE /\ benchPc' = "loop"
            /\ results' = [i \in 1..Len(breq.TestCases) |-> Nil]
            /\ UNCHANGED benchRet
    /\ UNCHANGED <<svc, routerVars, bulkVars, statVars, rpcVars, caseIdx, times, recorded, benchLaunched,
                   benchSem, benchWg, benchWpc, benchSuccessCount, failedCount,
                   routedTo, asExpected, totalRequests>>

\* the loop calls runBenchmarkTest for the next case: main.go:158-170
RunBenchmarkTest ==
    /\ benchPc = "loop"
    /\ caseIdx < Len(benchReq.TestCases)
    /\ caseIdx' = caseIdx + 1
    /\ times' = [i \in 1..benchReq.Iterations |-> 0]
    /\ recorded' = [i \in 1..benchReq.Iterations |-> 0]
    /\ benchSuccessCount' = 0
    /\ failedCount' = 0
    /\ asExpected' = 0
    /\ benchLaunched' = 0
    /\ benchSem' = 0
    /\ benchWg' = 0
    /\ benchWpc' = [i \in 1..benchReq.Iterations |-> "unlaunched"]
    /\ benchPc' = "case"
    /\ UNCHANGED <<svc, routerVars, bulkVars, statVars, rpcVars, benchReq, routedTo, results,
                   totalRequests, benchRet>>

\* wg.Add(1); go func(idx)
BenchLaunch ==
    /\ benchPc = "case"
    /\ benchLaunched < benchReq.Iterations
    /\ benchLaunched' = benchLaunched + 1
    /\ benchWg' = benchWg + 1
    /\ benchWpc' = [benchWpc EXCEPT ![benchLaunched + 1] = "start"]
    /\ UNCHANGED <<svc, routerVars, bulkVars, statVars, rpcVars, benchPc, benchReq, caseIdx,
                   times, recorded, benchSem, benchSuccessCount, failedCount, routedTo,
                   asExpected, results, totalRequests, benchRet>>

\* sem <- struct{}{}, and the goroutine enters the Router call
BenchAcquire(i) ==
    /\ benchWpc[i] = "start"
    /\ CanSend(benchSem, BenchCapacity(benchReq.Concurrency))
    /\ benchSem' = benchSem + 1
    /\ benchWpc' = [benchWpc EXCEPT ![i] = "incall"]
    /\ UNCHANGED <<svc, routerVars, bulkVars, statVars, rpcVars, benchPc, benchReq, caseIdx,
                   times, recorded, benchLaunched, benchWg, benchSuccessCount, failedCount,
                   routedTo, asExpected, results, totalRequests, benchRet>>

\* a bug: the goroutine reads the loop variable, which has run to its end
LatencySlotOfLoopVariable(idx) == Len(times)

\* times[idx]: idx is the argument of the goroutine, one slot per iteration
LatencySlot(idx) == idx

\* the Router call returns; the goroutine records the latency in its slot and
\* adds to one of the two counters
BenchCall(i) ==
    /\ svc' = ServiceAfterCall(svc)
    /\ benchWpc[i] = "incall"
    /\ \E o \in RouterOutcomes(svc, PermReq(CurrentCase)), elapsed \in Latencies :
          /\ times' = [times EXCEPT ![LatencySlot(i)] = elapsed]
          /\ IF BenchOutcomeOk(o, CurrentCase.ExpectedResult)
             THEN /\ benchSuccessCount' = AddInt32(benchSuccessCount, 1)
                  /\ UNCHANGED failedCount
             ELSE /\ failedCount' = AddInt32(failedCount, 1)
                  /\ UNCHANGED benchSuccessCount
          /\ asExpected' =
                IF o.err = NoErr /\ Deref(o.resp).HasPermission = CurrentCase.ExpectedResult
                THEN asExpected + 1
                ELSE asExpected
    /\ recorded' = [recorded EXCEPT ![LatencySlot(i)] = @ + 1]
    /\ routedTo' = routedTo \cup {SelectImplementation(PermReq(CurrentCase))}
    /\ benchWpc' = [benchWpc EXCEPT ![i] = "counted"]
    /\ UNCHANGED <<routerVars, bulkVars, statVars, rpcVars, benchPc, benchReq, caseIdx,
                   benchLaunched, benchSem, benchWg, results, totalRequests, benchRet>>

\* the deferred <-sem
BenchRelease(i) ==
    /\ benchWpc[i] = "counted"
    /\ benchSem' = benchSem - 1
    /\ benchWpc' = [benchWpc EXCEPT ![i] = "released"]
    /\ UNCHANGED <<svc, routerVars, bulkVars, statVars, rpcVars, benchPc, benchReq, caseIdx,
                   times, recorded, benchLaunched, benchWg, benchSuccessCount, failedCount,
                   routedTo, asExpected, results, totalRequests, benchRet>>

\* the deferred wg.Done()
BenchDone(i) ==
    /\ benchWpc[i] = "released"
    /\ benchWg' = benchWg - 1
    /\ benchWpc' = [benchWpc EXCEPT ![i] = "done"]
    /\ UNCHANGED <<svc, routerVars, bulkVars, statVars, rpcVars, benchPc, benchReq, caseIdx,
                   times, recorded, benchLaunched, benchSem, benchSuccessCount, failedCount,
                   routedTo, asExpected, results, totalRequests, benchRet>>

\* wg.Wait() returns; the slice is sorted, the statistics computed and the
\* result of the case stored by the loop of Benchmark
BenchWait ==
    /\ benchPc = "case"
    /\ benchLaunched = benchReq.Iterations
    /\ WaitDone(benchWg)
    /\ times' = SortFloat64s(times)
    /\ UNCHANGED recorded
    /\ LET st == LatencyStatistics(times) IN
       IF st.Panic # <<>>
       THEN /\ benchPc' = "panicked"
            /\ UNCHANGED <<results, totalRequests>>
       ELSE /\ benchPc' = "loop"
            /\ results' = StoreResult(results, caseIdx,
                              Ptr(BenchmarkResult(CurrentCase.Name, st,
                                                  benchReq.Iterations,
                                                  benchSuccessCount, failedCount,
                                                  benchReq.Implementation)))
            /\ totalRequests' = totalRequests + benchReq.Iterations
    /\ UNCHANGED <<svc, routerVars, bulkVars, statVars, rpcVars, benchReq, caseIdx,
                   benchLaunched, benchSem, benchWg, benchWpc, benchSuccessCount,
                   failedCount, routedTo, asExpected, benchRet>>

\* after the last case: the summary, and the return
BenchmarkReturn ==
    /\ benchPc = "loop"
    /\ caseIdx = Len(benchReq.TestCases)
    /\ \E totalTime \in ElapsedMs :
          benchRet' = [Results |-> results,
                       Summary |-> BenchmarkSummary(totalTime, totalRequests,
                                                    benchReq.Implementation),
                       Err |-> NoErr]
    /\ benchPc' = "returned"
    /\ UNCHANGED <<svc, routerVars, bulkVars, statVars, rpcVars, benchReq, caseIdx, times, recorded,
                   benchLaunched, benchSem, benchWg, benchWpc, benchSuccessCount,
                   failedCount, routedTo, asExpected, results, totalRequests>>

InitBench ==
    /\ svc = NewService("client", "client", "client")
    /\ RouterIdle
    /\ BulkIdle
    /\ BenchIdle
    /\ StatIdle
    /\ RpcIdle

NextBench ==
    \/ \E breq \in BenchRequests : Benchmark(breq)
    \/ RunBenchmarkTest
    \/ BenchLaunch
    \/ \E i \in 1..Len(benchWpc) : BenchAcquire(i)
    \/ \E i \in 1..Len(benchWpc) : BenchCall(i)
    \/ \E i \in 1..Len(benchWpc) : BenchRelease(i)
    \/ \E i \in 1..Len(benchWpc) : BenchDone(i)
    \/ BenchWait
    \/ BenchmarkReturn

SpecBench == InitBench /\ [][NextBench]_vars

\* ------------------------------------------------------------------------
\* server.Benchmark with two test cases
\* ------------------------------------------------------------------------

\* req.TestCases with two cases of different names, routes and expectations
CasePairs ==
    {<<TestCase("first", <<>>, "can_access", e),
       TestCase("second", [implementation |-> "neo4j"], "can_access", ~e)>> :
        e \in BOOLEAN}

PairRequests ==
    [TestCases : CasePairs,
     Iterations : 1..MaxIterations,
     Concurrency : {0, MaxIterations},
     Implementation : {"SPICEDB"}]

NextCases ==
    \/ \E breq \in PairRequests : Benchmark(breq)
    \/ RunBenchmarkTest
    \/ BenchLaunch
    \/ \E i \in 1..Len(benchWpc) : BenchAcquire(i)
    \/ \E i \in 1..Len(benchWpc) : BenchCall(i)
    \/ \E i \in 1..Len(benchWpc) : BenchRelease(i)
    \/ \E i \in 1..Len(benchWpc) : BenchDone(i)
    \/ BenchWait
    \/ BenchmarkReturn

SpecCases == InitBench /\ [][NextCases]_vars

\* ------------------------------------------------------------------------
\* server.Health
\* ------------------------------------------------------------------------

HealthRequests == [Implementation : Implementations]

\* a bug: the handler reports the state of the backend asked for
HealthResponseProbed(hreq) ==
    [Healthy |-> hreq.Implementation = "SPICEDB",
     Implementation |-> hreq.Implementation,
     StatusMessage |-> IF hreq.Implementation = "SPICEDB" THEN "OK" ELSE "unavailable",
     Err |-> NoErr]

\* the HealthResponse and the nil error of main.go:30-34
HealthResponse(hreq) ==
    [Healthy |-> TRUE,
     Implementation |-> hreq.Implementation,
     StatusMessage |-> "OK",
     Err |-> NoErr]

Health(hreq) ==
    /\ healthPc = "idle"
    /\ healthReq' = hreq
    /\ healthRet' = HealthResponse(hreq)
    /\ healthPc' = "returned"
    /\ UNCHANGED <<svc, routerVars, bulkVars, benchVars, statVars, streamVars>>

\* a Health call next to a server.CheckPermission call
NextHealth ==
    \/ Next
    \/ \E hreq \in HealthRequests : Health(hreq)

SpecHealth == Init /\ [][NextHealth]_vars

\* ------------------------------------------------------------------------
\* server.StreamPermissionChecks
\* ------------------------------------------------------------------------

\* the ways stream.Recv stops delivering requests: io.EOF or another error
StreamEnds == {<<"EOF">>, <<"recv failed">>}

\* what a client sends: up to MaxStream requests, then the end
StreamInputs ==
    [Requests : UNION {[1..n -> BulkRequests] : n \in 0..MaxStream},
     End : StreamEnds]

\* a bug: the Router's response is sent as it is, nil when the call failed
StreamResponseAsReturned(o) == o.resp

\* the response sent for the pair the Router returned
StreamResponse(o) ==
    IF o.err # NoErr THEN Response(FALSE, "UNSPECIFIED", o.err) ELSE o.resp

StreamPermissionChecks(input) ==
    /\ streamPc = "idle"
    /\ streamIn' = input
    /\ streamPc' = "recv"
    /\ UNCHANGED <<svc, routerVars, bulkVars, benchVars, statVars, healthVars,
                   streamReq, streamResp, streamSent, streamRecvd, streamRouted,
                   streamRet>>

\* stream.Recv() and the two tests of its error
StreamRecv ==
    /\ streamPc = "recv"
    /\ IF streamIn.Requests # <<>>
       THEN /\ streamReq' = Head(streamIn.Requests)
            /\ streamIn' = [streamIn EXCEPT !.Requests = Tail(@)]
            /\ streamRecvd' = Append(streamRecvd, Head(streamIn.Requests))
            /\ streamPc' = "call"
            /\ UNCHANGED streamRet
       ELSE /\ streamRet' = IF streamIn.End = <<"EOF">> THEN NoErr ELSE streamIn.End
            /\ streamPc' = "ended"
            /\ UNCHANGED <<streamReq, streamIn, streamRecvd>>
    /\ UNCHANGED <<svc, routerVars, bulkVars, benchVars, statVars, healthVars,
                   streamResp, streamSent, streamRouted>>

\* the Router call and the replacement of resp on an error
StreamCall ==
    /\ streamPc = "call"
    /\ \E o \in RouterOutcomes(svc, streamReq) :
          /\ streamResp' = StreamResponse(o)
          /\ streamRouted' = Append(streamRouted, o)
    /\ svc' = ServiceAfterCall(svc)
    /\ streamPc' = "send"
    /\ UNCHANGED <<routerVars, bulkVars, benchVars, statVars, healthVars,
                   streamIn, streamReq, streamSent, streamRecvd, streamRet>>

\* stream.Send(resp) delivers the response
StreamSend ==
    /\ streamPc = "send"
    /\ streamSent' = Append(streamSent, streamResp)
    /\ streamPc' = "recv"
    /\ UNCHANGED <<svc, routerVars, bulkVars, benchVars, statVars, healthVars,
                   streamIn, streamReq, streamResp, streamRecvd, streamRouted,
                   streamRet>>

\* stream.Send(resp) fails and the handler returns its error
StreamSendFails ==
    /\ streamPc = "send"
    /\ streamRet' = <<"send failed">>
    /\ streamPc' = "ended"
    /\ UNCHANGED <<svc, routerVars, bulkVars, benchVars, statVars, healthVars,
                   streamIn, streamReq, streamResp, streamSent, streamRecvd,
                   streamRouted>>

NextStream ==
    \/ \E input \in StreamInputs : StreamPermissionChecks(input)
    \/ StreamRecv
    \/ StreamCall
    \/ StreamSend
    \/ StreamSendFails

InitStream == InitBulk

SpecStream == InitStream /\ [][NextStream]_vars

\* ------------------------------------------------------------------------
\* A batch with the ceiling 1 whose Router calls are taken step by step
\* ------------------------------------------------------------------------

\* the worker past the gate enters Service.CheckPermission
EnterRouter(i) ==
    /\ wpc[i] = "incall"
    /\ ServerCheckPermission(requests[i])

\* the steps of Service.CheckPermission and checkBothImplementations
RouterSteps ==
    \/ RouteNotAvailable
    \/ RouteCall
    \/ RouteReturn
    \/ BothStart
    \/ SpiceMissing
    \/ SpiceCall
    \/ SpiceReturn
    \/ Neo4jMissing
    \/ Neo4jCall
    \/ Neo4jReturn
    \/ WaitSpice
    \/ WaitNeo4j
    \/ BothReturn

\* the Router call has returned: the worker writes its slot, as in Store
LeaveRouter(i) ==
    /\ wpc[i] = "incall"
    /\ pc = "returned"
    /\ routed' = [routed EXCEPT ![i] = ret]
    /\ responses' = StoreResponse(responses, i, BulkSlot(ret))
    /\ outOfOrder' = (outOfOrder \/ \E j \in 1..(i - 1) :
                                       wpc[j] \in {"unlaunched", "start", "incall"})
    /\ wpc' = [wpc EXCEPT ![i] = "stored"]
    /\ pc' = "idle"
    /\ req' = NoRequest
    /\ implementation' = "UNSPECIFIED"
    /\ evalPc' = "none"
    /\ spicePc' = "none"
    /\ neo4jPc' = "none"
    /\ spiceResult' = Nil
    /\ spiceErr' = NoErr
    /\ neo4jResult' = Nil
    /\ neo4jErr' = NoErr
    /\ ret' = NoPair
    /\ stdout' = <<>>
    /\ returned' = NothingReturned
    /\ firstClosed' = "none"
    /\ UNCHANGED <<svc, benchVars, statVars, rpcVars, bpc, requests, maxConcurrency,
                   launched, sem, wg, successCount, errorCount, bulkRet>>

NextRouted ==
    \/ \E reqs \in Batches : CheckBulkPermissions(reqs, 1)
    \/ Launch
    \/ \E i \in 1..Len(requests) : Acquire(i)
    \/ \E i \in 1..Len(requests) : EnterRouter(i)
    \/ RouterSteps
    \/ \E i \in 1..Len(requests) : LeaveRouter(i)
    \/ \E i \in 1..Len(requests) : Count(i)
    \/ \E i \in 1..Len(requests) : Release(i)
    \/ \E i \in 1..Len(requests) : Done(i)
    \/ BulkReturn

SpecRouted == Init /\ [][NextRouted]_vars

\* ------------------------------------------------------------------------
\* A batch or a benchmark whose goroutines are scheduled and whose Router
\* calls return
\* ------------------------------------------------------------------------

NextWorkers ==
    \/ BenchIdle /\ NextBulk
    \/ BulkIdle /\ NextBench

\* the Go scheduler runs every goroutine that can take a step, and every
\* Router call returns (the steps Store and BenchCall)
SpecWorkersFair ==
    /\ InitBench
    /\ [][NextWorkers]_vars
    /\ WF_vars(NextWorkers)

\* ------------------------------------------------------------------------
\* The five caller-facing operations, one call in a behaviour
\* ------------------------------------------------------------------------

InitServer == InitBench

NextServer ==
    \/ BulkIdle /\ BenchIdle /\ RpcIdle /\ Next
    \/ RouterIdle /\ BenchIdle /\ RpcIdle /\ NextBulk
    \/ RouterIdle /\ BulkIdle /\ RpcIdle /\ NextBench
    \/ RouterIdle /\ BulkIdle /\ BenchIdle /\ HealthIdle /\ NextStream
    \/ RouterIdle /\ BulkIdle /\ BenchIdle /\ StreamIdle
          /\ \E hreq \in HealthRequests : Health(hreq)

SpecServer == InitServer /\ [][NextServer]_vars

\* ------------------------------------------------------------------------
\* Vocabulary of the properties
\* ------------------------------------------------------------------------

HasHint(r) == "implementation" \in DOMAIN r.Context

Hint(r) == r.Context["implementation"]

RecognizedHints == {"spicedb", "neo4j", "graphql", "both"}

\* the backend a hint asks for, as a table
RequestedBackend(r) ==
    IF HasHint(r) /\ Hint(r) = "neo4j" THEN "NEO4J"
    ELSE IF HasHint(r) /\ Hint(r) = "graphql" THEN "GRAPHQL"
    ELSE IF HasHint(r) /\ Hint(r) = "both" THEN "BOTH"
    ELSE "SPICEDB"

\* the call of server.CheckPermission has returned
Returned == pc = "returned"

SingleBackend == Returned /\ RequestedBackend(req) # "BOTH"

ViaComparator == Returned /\ RequestedBackend(req) = "BOTH"

\* the first pair the client behind a Service field returned
First(field) == returned[field][1]

Invoked(field) == Len(returned[field]) > 0

\* a side of the Comparator failed: no client, or its client raised an error
SideFailed(field) ==
    svc[field] = "nil" \/ (Invoked(field) /\ First(field).err # NoErr)

\* a side of the Comparator succeeded: its client answered without error
SideSucceeded(field) ==
    svc[field] # "nil" /\ Invoked(field) /\ First(field).err = NoErr

\* the failure text of a failed side
FailureText(field) ==
    IF svc[field] # "nil" THEN First(field).err
    ELSE IF field = "Spice" THEN <<"SpiceDB backend ", "not available">>
    ELSE <<"Neo4j backend ", "not available">>

\* piece is one of the text pieces of msg
Contains(msg, piece) == \E k \in 1..Len(msg) : msg[k] = piece

\* text occurs in msg as a contiguous run of pieces
Embeds(msg, text) ==
    \E k \in 0..(Len(msg) - Len(text)) : SubSeq(msg, k + 1, k + Len(text)) = text

\* the slot value that belongs to the worker's Router result
SlotOf(o) ==
    IF o.err = NoErr
    THEN o.resp
    ELSE <<[HasPermission |-> FALSE, Implementation |-> "UNSPECIFIED",
            ErrorMessage |-> o.err]>>

BulkDone == bpc = "returned" /\ Len(requests) > 0

\* ------------------------------------------------------------------------
\* Properties
\* ------------------------------------------------------------------------

\* C1: when CheckBulkPermissions returns for a non-empty batch, under every
\* ceiling tried and every completion order, Responses has one entry per
\* request and Responses[i] is what worker i obtained from the Router for
\* requests[i] (its response, or the negative response built from its error).
C1_ResponsesInRequestOrder ==
    BulkDone =>
        /\ Len(bulkRet.Responses) = Len(requests)
        /\ \A i \in 1..Len(requests) :
              /\ routed[i] \in RouterOutcomes(svc, requests[i])
              /\ bulkRet.Responses[i] = SlotOf(routed[i])

\* C1 witness: a batch of two returned after the second worker wrote first,
\* with different responses in the two slots and a ceiling above the length
C1_Witness ==
    /\ BulkDone
    /\ Len(requests) = 2
    /\ outOfOrder
    /\ maxConcurrency > Len(requests)
    /\ bulkRet.Responses[1] # bulkRet.Responses[2]

\* C2: every worker adds one to exactly one of the two counters, so at every
\* moment the counters sum to the number of workers past their increment, and
\* at the return SuccessCount + ErrorCount = len(requests).
C2_CountsAddUp ==
    /\ successCount + errorCount =
           Cardinality({i \in DOMAIN wpc : wpc[i] \in {"counted", "released", "done"}})
    /\ BulkDone => bulkRet.SuccessCount + bulkRet.ErrorCount = Len(requests)

\* C2 witness: a returned batch with one success and one error
C2_Witness ==
    /\ BulkDone
    /\ bulkRet.SuccessCount = 1
    /\ bulkRet.ErrorCount = 1

\* C3: with a ceiling c > 0 at most c workers are inside the Router call, and
\* every worker inside the call holds one slot of the gate.
C3_CeilingBoundsCalls ==
    maxConcurrency > 0 =>
        /\ Cardinality({i \in DOMAIN wpc : wpc[i] = "incall"}) <= maxConcurrency
        /\ Cardinality({i \in DOMAIN wpc : wpc[i] \in {"incall", "stored", "counted"}}) = sem
        /\ sem <= maxConcurrency

\* C3 witness: ceiling 1, one worker inside the call and another one waiting
C3_Witness ==
    /\ maxConcurrency = 1
    /\ \E i, j \in DOMAIN wpc : wpc[i] = "incall" /\ wpc[j] = "start"

\* C4: when the response is built every worker has finished and every slot
\* holds a response.
C4_ReturnsAfterAllWorkers ==
    BulkDone =>
        \A i \in 1..Len(requests) :
            /\ wpc[i] = "done"
            /\ ~IsNil(bulkRet.Responses[i])

\* C4 witness: a returned batch of two in which a Router call gave a nil response
C4_Witness ==
    /\ BulkDone
    /\ Len(requests) = 2
    /\ \E i \in 1..2 : IsNil(routed[i].resp)

C6_NotAvailableResponse ==
    (SingleBackend /\ svc[FieldOf(RequestedBackend(req))] = "nil") =>
        /\ ret.err = NoErr
        /\ ~IsNil(ret.resp)
        /\ ~Deref(ret.resp).HasPermission
        /\ Deref(ret.resp).Implementation = RequestedBackend(req)
        /\ Contains(Deref(ret.resp).ErrorMessage, "not available")
        /\ returned = NothingReturned
        /\ evalPc = "none"

\* C6 witness: hint "graphql" on a service without GraphQL client
C6_Witness ==
    /\ SingleBackend
    /\ HasHint(req)
    /\ Hint(req) = "graphql"
    /\ svc.GraphQL = "nil"

C8_BothFailed ==
    (ViaComparator /\ SideFailed("Spice") /\ SideFailed("Neo4j")) =>
        /\ ret.err = NoErr
        /\ ~IsNil(ret.resp)
        /\ ~Deref(ret.resp).HasPermission
        /\ Deref(ret.resp).Implementation = "BOTH"
        /\ Embeds(Deref(ret.resp).ErrorMessage, FailureText("Spice"))
        /\ Embeds(Deref(ret.resp).ErrorMessage, FailureText("Neo4j"))

\* C8 witness: no SpiceDB client and a Neo4j client that raised an error
C8_Witness ==
    /\ ViaComparator
    /\ svc.Spice = "nil"
    /\ Invoked("Neo4j")
    /\ First("Neo4j").err # NoErr

\* C9: when exactly one side failed and the other succeeded the call returns
\* no error, the succeeding side's decision, tag BOTH and a message naming the
\* failed side as unavailable; on either side.
C9_OneSideFailed ==
    /\ (ViaComparator /\ SideFailed("Spice") /\ SideSucceeded("Neo4j")) =>
          /\ ret.err = NoErr
          /\ ~IsNil(ret.resp)
          /\ Deref(ret.resp).HasPermission = Deref(First("Neo4j").resp).HasPermission
          /\ Deref(ret.resp).Implementation = "BOTH"
          /\ Contains(Deref(ret.resp).ErrorMessage, "SpiceDB unavailable, using Neo4j only: ")
    /\ (ViaComparator /\ SideFailed("Neo4j") /\ SideSucceeded("Spice")) =>
          /\ ret.err = NoErr
          /\ ~IsNil(ret.resp)
          /\ Deref(ret.resp).HasPermission = Deref(First("Spice").resp).HasPermission
          /\ Deref(ret.resp).Implementation = "BOTH"
          /\ Contains(Deref(ret.resp).ErrorMessage, "Neo4j unavailable, using SpiceDB only: ")

\* C9 witness: SpiceDB raised an error and Neo4j granted the permission
C9_Witness ==
    /\ ViaComparator
    /\ Invoked("Spice")
    /\ First("Spice").err # NoErr
    /\ SideSucceeded("Neo4j")
    /\ Deref(First("Neo4j").resp).HasPermission

\* C10: when both sides succeeded the call returns no error and SpiceDB's
\* decision with tag BOTH, whatever Neo4j decided.
C10_PrimaryWins ==
    (ViaComparator /\ SideSucceeded("Spice") /\ SideSucceeded("Neo4j")) =>
        /\ ret.err = NoErr
        /\ ~IsNil(ret.resp)
        /\ Deref(ret.resp).HasPermission = Deref(First("Spice").resp).HasPermission
        /\ Deref(ret.resp).Implementation = "BOTH"

\* C10 witness: SpiceDB granted, Neo4j denied, and the mismatch was printed
C10_Witness ==
    /\ ViaComparator
    /\ SideSucceeded("Spice")
    /\ SideSucceeded("Neo4j")
    /\ Deref(First("Spice").resp).HasPermission
    /\ ~Deref(First("Neo4j").resp).HasPermission
    /\ Contains(stdout, "MISMATCH")

\* C11: the Comparator reads the results only after both goroutines have
\* closed their channel, in every interleaving; and once both have closed,
\* the call returns.
C11_JoinBeforeReconcile ==
    /\ [](pc \in {"waitNeo4j", "reconcile"} => spicePc = "closed")
    /\ [](pc = "reconcile" => neo4jPc = "closed")
    /\ [](ViaComparator => spicePc = "closed" /\ neo4jPc = "closed")
    /\ ((spicePc = "closed" /\ neo4jPc = "closed") ~> Returned)

\* C11 witness: the second goroutine has finished, the first one is still in
\* its client call, and the Comparator waits
C11_Witness ==
    /\ pc = "waitSpice"
    /\ spicePc = "calling"
    /\ neo4jPc = "closed"
    /\ Invoked("Neo4j")

\* C12 as stated: with only the SpiceDB client configured, the result for
\* hint "both" is the result a SpiceDB call gives for the same client answer
\* (the client's response and error), but for the tag BOTH.
C12_AsStated ==
    (ViaComparator /\ svc = NewService("client", "nil", "nil")) =>
        /\ ret.err = First("Spice").err
        /\ ret.resp = Overwrite(First("Spice").resp, "BOTH",
                                Deref(First("Spice").resp).ErrorMessage)

\* C12 amended: with only the SpiceDB client configured, the result for hint
\* "both" has the decision of the SpiceDB call for the same client answer and
\* the tag BOTH, but always a nil error, and its message is rewritten: the
\* SpiceDB message prefixed with the note that Neo4j is unavailable when the
\* client succeeded, the combined both-unavailable message when it raised an
\* error.
C12_OnlySpiceConfigured ==
    (ViaComparator /\ svc = NewService("client", "nil", "nil")) =>
        /\ ret.err = NoErr
        /\ ~IsNil(ret.resp)
        /\ Deref(ret.resp).Implementation = "BOTH"
        /\ Deref(ret.resp).HasPermission = Deref(First("Spice").resp).HasPermission
        /\ Deref(ret.resp).ErrorMessage =
              IF First("Spice").err = NoErr
              THEN <<"Neo4j unavailable, using SpiceDB only: ">>
                   \o Deref(First("Spice").resp).ErrorMessage
              ELSE <<"Both backends unavailable - SpiceDB: ">> \o First("Spice").err
                   \o <<", Neo4j: ", "Neo4j backend ", "not available">>

\* C12 witness: only SpiceDB configured, hint "both", the client granted
C12_Witness ==
    /\ ViaComparator
    /\ svc = NewService("client", "nil", "nil")
    /\ First("Spice").err = NoErr
    /\ Deref(First("Spice").resp).HasPermission
    /\ Deref(ret.resp).HasPermission

\* C13: no item failure aborts a batch: the handler returns a nil error,
\* while it runs some step can always be taken, and when it has returned
\* every item has been evaluated by its own worker and has a response in its
\* slot, the failed items included.
C13_NoItemFailureAborts ==
    /\ bpc = "returned" => bulkRet.Err = NoErr
    /\ bpc = "running" =>
          /\ Len(responses) = Len(requests)
          /\ ENABLED NextBulk
    /\ BulkDone =>
          /\ Len(bulkRet.Responses) = Len(requests)
          /\ \A i \in 1..Len(requests) :
                /\ wpc[i] = "done"
                /\ routed[i] # NoPair
                /\ ~IsNil(bulkRet.Responses[i])
                /\ routed[i].err # NoErr =>
                      ~Deref(bulkRet.Responses[i]).HasPermission

\* C13 witness: a batch has returned in which the first item's Router call
\* failed and the second item's succeeded
C13_Witness ==
    /\ BulkDone
    /\ Len(requests) >= 2
    /\ routed[1].err # NoErr
    /\ routed[2].err = NoErr
    /\ Deref(bulkRet.Responses[2]) = Deref(routed[2].resp)

\* C20: the empty batch returns at once: no responses, both counts zero,
\* elapsed time zero, a nil error, no worker launched and no Router call.
C20_EmptyBatch ==
    (bpc = "returned" /\ Len(requests) = 0) =>
        /\ bulkRet.Responses = <<>>
        /\ bulkRet.SuccessCount = 0
        /\ bulkRet.ErrorCount = 0
        /\ bulkRet.TotalTimeMs = 0
        /\ bulkRet.Err = NoErr
        /\ launched = 0
        /\ wpc = <<>>
        /\ routed = <<>>
        /\ wg = 0
        /\ sem = 0

\* C20 witness: the handler has returned for the empty batch
C20_Witness ==
    /\ bpc = "returned"
    /\ requests = <<>>
    /\ bulkRet = EmptyBulkResponse

\* a <= q and q <= b for a fraction q with a positive denominator
Between(a, q, b) == a * q.den <= q.num /\ q.num <= b * q.den

\* the statistics have been computed without a panic
Computed == ~IsNil(statistics) /\ Deref(statistics).Panic = <<>>

\* C15: for every latency slice of one or more non-negative values,
\* min <= avg <= max and min <= p95 <= p99 <= max; min and max are the
\* smallest and the largest recorded latency.
C15_StatisticsOrdered ==
    ~IsNil(statistics) =>
        /\ Computed
        /\ LET st == Deref(statistics) IN
           /\ Between(st.Min, st.Avg, st.Max)
           /\ st.Min <= st.P95
           /\ st.P95 <= st.P99
           /\ st.P99 <= st.Max
           /\ \A i \in 1..Len(samples) : st.Min <= samples[i] /\ samples[i] <= st.Max
           /\ \E i \in 1..Len(samples) : st.Min = samples[i]
           /\ \E i \in 1..Len(samples) : st.Max = samples[i]

\* C15 witness: statistics of a slice recorded out of order, in which the
\* five values are not all the same
C15_Witness ==
    /\ Computed
    /\ Len(samples) > 1
    /\ samples[1] > samples[Len(samples)]
    /\ Deref(statistics).Min < Deref(statistics).P95
    /\ Deref(statistics).P95 < Deref(statistics).P99
    /\ Deref(statistics).P99 < Deref(statistics).Max

\* C16: for every length n >= 1 both percentile indices lie in 0..n-1, so
\* the index expressions do not panic.
C16_PercentileIndexInRange ==
    /\ \A n \in 1..MaxLongSamples :
          /\ InRange(PercentileIndex(n, P95), n)
          /\ InRange(PercentileIndex(n, P99), n)
    /\ ~IsNil(statistics) =>
          /\ Deref(statistics).Panic = <<>>
          /\ InRange(Deref(statistics).P95Index, Len(samples))
          /\ InRange(Deref(statistics).P99Index, Len(samples))

\* C16 witness: the statistics of a slice of length one
C16_Witness ==
    /\ Computed
    /\ Len(samples) = 1
    /\ Deref(statistics).P95Index = 0
    /\ Deref(statistics).P99Index = 0

\* the goroutines of the running case that have returned from the Router
Finished == {i \in DOMAIN benchWpc : benchWpc[i] \in {"counted", "released", "done"}}

\* the goroutines of the running case that are inside the Router call
InFlight == {i \in DOMAIN benchWpc : benchWpc[i] = "incall"}

\* max(1, concurrency)
AtLeastOne(concurrency) == IF concurrency < 1 THEN 1 ELSE concurrency

\* the result of test case k has been stored
HasResult(k) == k \in DOMAIN results /\ ~IsNil(results[k])

\* C14: the result of a case counts every iteration once: totalRequests is
\* the iteration count (which is at least 1), successfulRequests and
\* failedRequests add up to it, and when every call returned the expected
\* decision without an error all of them are successful and none failed.
C14_PerCaseCounts ==
    /\ benchPc # "panicked"
    /\ \A k \in DOMAIN results : HasResult(k) =>
          LET r == Deref(results[k]) IN
          /\ benchReq.Iterations >= 1
          /\ r.TotalRequests = benchReq.Iterations
          /\ r.SuccessfulRequests + r.FailedRequests = benchReq.Iterations
          /\ (k = caseIdx /\ asExpected = benchReq.Iterations) =>
                /\ r.SuccessfulRequests = benchReq.Iterations
                /\ r.FailedRequests = 0
                /\ r.Success

\* C14 witness: a case of two or more iterations run two or more at a time,
\* all with the expected decision
C14_Witness ==
    /\ HasResult(1)
    /\ benchReq.Iterations >= 2
    /\ benchReq.Concurrency >= 2
    /\ asExpected = benchReq.Iterations
    /\ Deref(results[1]).SuccessfulRequests = benchReq.Iterations

\* C17: at no time are more than max(1, concurrency) Router calls of a
\* benchmark case in flight, nor more goroutines past the gate; with a
\* concurrency of 0 or less that is one call at a time.
C17_AdmissionGate ==
    /\ Cardinality(InFlight) <= AtLeastOne(benchReq.Concurrency)
    /\ benchSem <= AtLeastOne(benchReq.Concurrency)
    /\ benchSem = Cardinality({i \in DOMAIN benchWpc : benchWpc[i] \in {"incall", "counted"}})
    /\ benchReq.Concurrency <= 0 => Cardinality(InFlight) <= 1

\* C17 witness: concurrency is not positive, one call is in flight and
\* another goroutine waits at the gate
C17_Witness ==
    /\ benchReq.Concurrency <= 0
    /\ \E i, j \in DOMAIN benchWpc :
          /\ benchWpc[i] = "incall"
          /\ benchWpc[j] = "start"
    /\ ~ENABLED (\E j \in DOMAIN benchWpc : BenchAcquire(j))

\* C18: an iteration is counted as successful exactly when its Router call
\* returned no error and the expected decision, and as failed otherwise.
C18_SuccessIffExpected ==
    /\ benchSuccessCount = asExpected
    /\ failedCount = Cardinality(Finished) - asExpected
    /\ HasResult(caseIdx) =>
          /\ Deref(results[caseIdx]).SuccessfulRequests = asExpected
          /\ Deref(results[caseIdx]).FailedRequests = benchReq.Iterations - asExpected

\* C18 witness: a case has finished with one iteration as expected and
\* another not
C18_Witness ==
    /\ HasResult(1)
    /\ asExpected >= 1
    /\ Deref(results[1]).SuccessfulRequests >= 1
    /\ Deref(results[1]).FailedRequests >= 1

\* C19 as stated: every Router call of a benchmark run goes to the backend
\* named by the request's Implementation argument.
C19_RoutedAsRequested ==
    \A impl \in routedTo : impl = benchReq.Implementation

\* C21: a benchmark request with no test case or with an iteration count of
\* 0 or less returns an empty result list, an empty summary and a nil error,
\* and neither a goroutine nor a Router call is started for it.
C21_NothingToRun ==
    (benchPc # "idle"
     /\ (Len(benchReq.TestCases) = 0 \/ benchReq.Iterations <= 0)) =>
        /\ benchPc = "returned"
        /\ benchRet.Results = <<>>
        /\ benchRet.Summary = EmptySummary
        /\ benchRet.Err = NoErr
        /\ routedTo = {}
        /\ caseIdx = 0
        /\ benchWpc = <<>>
        /\ benchLaunched = 0
        /\ totalRequests = 0

\* C21 witness: a request with one test case and a negative iteration count
\* has returned
C21_Witness ==
    /\ benchPc = "returned"
    /\ Len(benchReq.TestCases) = 1
    /\ benchReq.Iterations < 0
    /\ benchRet.Results = <<>>

\* C22: with a ceiling of 0 or less the gate has room for every request of
\* the batch: a worker that has reached the gate is never blocked, and all
\* the Router calls of the batch can be in flight together.
C22_NoCeiling ==
    (bpc = "running" /\ maxConcurrency <= 0) =>
        /\ sem <= Len(requests)
        /\ \A i \in DOMAIN wpc : wpc[i] = "start" =>
              /\ sem < Len(requests)
              /\ ENABLED Acquire(i)

\* C22 witness: the ceiling is not positive and every worker of a batch of
\* two or more requests is inside its Router call
C22_Witness ==
    /\ bpc = "running"
    /\ maxConcurrency <= 0
    /\ Len(requests) >= 2
    /\ \A i \in DOMAIN wpc : wpc[i] = "incall"
    /\ sem = Len(requests)

\* C23 as stated: a single-backend call whose client is configured and
\* returned no error yields a response tagged with the selected backend.
C23_TagOfSelectedBackend ==
    (SingleBackend /\ svc[FieldOf(RequestedBackend(req))] = "client"
     /\ ret.err = NoErr /\ Deref(ret.resp).ErrorMessage = <<>>) =>
        Deref(ret.resp).Implementation = RequestedBackend(req)

\* C24: no step of CheckPermission, CheckBulkPermissions,
\* StreamPermissionChecks, Benchmark or Health changes the Service: the three
\* references set by NewService stay as they are.
C24_ServiceUnchanged == [][svc' = svc]_vars

\* C24 witness: a stream has answered a request through the Comparator and
\* the Service still holds its three clients
C24_Witness ==
    /\ streamPc = "ended"
    /\ Len(streamSent) >= 1
    /\ svc = NewService("client", "client", "client")
    /\ Deref(streamSent[1]).Implementation = "BOTH"

\* C26: Health returns Healthy=true, the status "OK", a nil error and the
\* implementation of its request, whichever clients the Service holds and
\* whatever the evaluators have answered.
C26_HealthAlwaysReady ==
    healthPc = "returned" =>
        /\ healthRet.Healthy
        /\ healthRet.StatusMessage = "OK"
        /\ healthRet.Err = NoErr
        /\ healthRet.Implementation = healthReq.Implementation

\* C26 witness: Health has answered for NEO4J on a Service without clients,
\* after a Neo4j-routed permission check was answered "not available"
C26_Witness ==
    /\ healthPc = "returned"
    /\ healthReq.Implementation = "NEO4J"
    /\ healthRet.Healthy
    /\ svc = NewService("nil", "nil", "nil")
    /\ Returned
    /\ RequestedBackend(req) = "NEO4J"

\* an evaluator call made by the Comparator has not returned
EvaluatorCallOpen == spicePc = "calling" \/ neo4jPc = "calling"

\* a Router call made by a batch worker has not returned
BulkCallOpen == \E i \in DOMAIN wpc : wpc[i] = "incall"

\* a Router call made by a benchmark goroutine has not returned
BenchCallOpen == \E i \in DOMAIN benchWpc : benchWpc[i] = "incall"

\* C25: nothing cancels or times out a call. While an evaluator call of the
\* Comparator is open the Comparator has not returned, and once its other
\* goroutine has finished it has no step to take; a batch or a benchmark has
\* not returned while a Router call of one of its workers is open. So a call
\* that stays open for ever keeps the Comparator, the batch or the benchmark
\* from ever returning.
C25_HungCallBlocks ==
    /\ [](EvaluatorCallOpen => pc \in {"waitSpice", "waitNeo4j"})
    /\ []((pc = "waitSpice" /\ spicePc = "calling") => ~ENABLED WaitSpice)
    /\ []((pc = "waitNeo4j" /\ neo4jPc = "calling") => ~ENABLED WaitNeo4j)
    /\ [](BulkCallOpen => bpc = "running" /\ ~ENABLED BulkReturn)
    /\ [](BenchCallOpen => benchPc = "case" /\ ~ENABLED BenchWait)
    /\ (<>[]EvaluatorCallOpen => [](pc # "returned"))
    /\ (<>[]BulkCallOpen => [](bpc # "returned"))
    /\ (<>[]BenchCallOpen => [](benchPc # "returned"))

\* C25 witness: the SpiceDB call of the Comparator has finished, the Neo4j
\* call is open, and the Comparator can only wait
C25_Witness ==
    /\ pc = "waitNeo4j"
    /\ spicePc = "closed"
    /\ neo4jPc = "calling"
    /\ ~ENABLED (WaitSpice \/ WaitNeo4j \/ BothReturn)

\* the number of steps a batch worker at position p still has to take
WorkerSteps(p) ==
    CASE p = "unlaunched" -> 6
      [] p = "start"      -> 5
      [] p = "incall"     -> 4
      [] p = "stored"     -> 3
      [] p = "counted"    -> 2
      [] p = "released"   -> 1
      [] OTHER            -> 0

\* the number of steps a running batch still has to take
BulkSteps ==
    (IF bpc = "returned" THEN 0 ELSE 1)
    + Sum([i \in DOMAIN wpc |-> WorkerSteps(wpc[i])])

\* the number of steps a benchmark goroutine at position p still has to take
BenchWorkerSteps(p) ==
    CASE p = "unlaunched" -> 5
      [] p = "start"      -> 4
      [] p = "incall"     -> 3
      [] p = "counted"    -> 2
      [] p = "released"   -> 1
      [] OTHER            -> 0

\* the number of steps the running case of a benchmark still has to take
CaseSteps ==
    CASE benchPc = "case" -> 2 + Sum([i \in DOMAIN benchWpc |-> BenchWorkerSteps(benchWpc[i])])
      [] benchPc = "loop" -> 1
      [] OTHER            -> 0

\* the test cases a benchmark has not started yet
CasesLeft == Len(benchReq.TestCases) - caseIdx

\* a batch or a benchmark is running
BulkRunning == bpc = "running"
BenchRunning == benchPc \in {"loop", "case"}

\* C27: a running batch or benchmark always has a step to take (no worker
\* waits for ever at the gate, whatever the number of requests and the
\* ceiling), and every step brings it nearer to its return: so when the
\* goroutines are scheduled and every Router call returns, it returns. At
\* the return every worker has passed the gate, finished and released its
\* slot, after failed calls as after successful ones, and the gate is empty.
C27_Termination ==
    /\ [](BulkRunning => ENABLED NextBulk)
    /\ [](BenchRunning => ENABLED NextBench)
    /\ [][BulkRunning => BulkSteps' < BulkSteps]_bulkVars
    /\ [][BenchRunning =>
             \/ CasesLeft' < CasesLeft
             \/ CasesLeft' = CasesLeft /\ CaseSteps' < CaseSteps]_benchVars
    /\ [](bpc = "returned" =>
            /\ sem = 0
            /\ wg = 0
            /\ \A i \in DOMAIN wpc : wpc[i] = "done" /\ routed[i] # NoPair)
    /\ [](benchPc = "returned" =>
            /\ benchSem = 0
            /\ benchWg = 0
            /\ \A i \in DOMAIN benchWpc : benchWpc[i] = "done")

\* C27 witness: a batch of two or more requests whose ceiling is larger than
\* their number has returned, a Router call of it failed, and the gate is empty
C27_Witness ==
    /\ BulkDone
    /\ Len(requests) >= 2
    /\ maxConcurrency > Len(requests)
    /\ \E i \in DOMAIN routed : routed[i].err # NoErr
    /\ sem = 0

\* the workers that have written their slot
PastStore == {i \in DOMAIN wpc : wpc[i] \in {"stored", "counted", "released", "done"}}

\* C28: a step that changes the response array of a running batch is the
\* write of one worker i, made once, when it leaves its Router call, into the
\* empty slot i and no other; so a slot is filled exactly when its own worker
\* has written, and the array is read into the result only when every worker
\* is done.
C28_SlotOwnership ==
    /\ [][(bpc = "running" /\ responses' # responses) =>
            \E i \in DOMAIN wpc :
                /\ wpc[i] = "incall"
                /\ wpc'[i] = "stored"
                /\ IsNil(responses[i])
                /\ ~IsNil(responses'[i])
                /\ \A j \in DOMAIN wpc \ {i} :
                      /\ responses'[j] = responses[j]
                      /\ wpc'[j] = wpc[j]]_vars
    /\ [](bpc = "running" =>
            \A i \in DOMAIN wpc : i \in PastStore <=> ~IsNil(responses[i]))
    /\ [][bulkRet' # bulkRet =>
            /\ \A i \in DOMAIN wpc : wpc[i] = "done"
            /\ bulkRet'.Responses = responses]_vars

\* C28 witness: the second worker has written its slot, the first one is
\* still inside its Router call and its slot is empty
C28_Witness ==
    /\ bpc = "running"
    /\ Len(requests) >= 2
    /\ wpc[1] = "incall"
    /\ wpc[2] = "stored"
    /\ IsNil(responses[1])
    /\ ~IsNil(responses[2])

\* the evaluator invocations in progress
OpenInvocations ==
    {g \in {"single", "spice", "neo4j"} :
        \/ g = "single" /\ evalPc = "calling"
        \/ g = "spice" /\ spicePc = "calling"
        \/ g = "neo4j" /\ neo4jPc = "calling"}

\* the Router calls of a batch in flight
RouterCallsOpen == {i \in DOMAIN wpc : wpc[i] = "incall"}

\* C29 as stated: with a ceiling c > 0 at most c evaluator invocations are
\* in progress at any time, requests with the hint "both" included.
C29_AsStated ==
    (bpc = "running" /\ maxConcurrency > 0) =>
        Cardinality(OpenInvocations) <= maxConcurrency

\* C29 amended: with a ceiling c > 0 at most c Router calls are in flight;
\* a Router call has one invocation in progress at most on each evaluator,
\* and two at once only through the Comparator, so at most 2c invocations
\* are in progress, and at most c when no request carries the hint "both".
C29_CeilingBoundsRouterCalls ==
    (bpc = "running" /\ maxConcurrency > 0) =>
        /\ Cardinality(RouterCallsOpen) <= maxConcurrency
        /\ pc # "idle" => Cardinality(RouterCallsOpen) = 1
        /\ Cardinality(OpenInvocations) <= 2 * maxConcurrency
        /\ Cardinality(OpenInvocations) > maxConcurrency =>
              /\ implementation = "BOTH"
              /\ OpenInvocations = {"spice", "neo4j"}
        /\ (\A i \in DOMAIN requests : RequestedBackend(requests[i]) # "BOTH") =>
              Cardinality(OpenInvocations) <= maxConcurrency

\* C29 witness: ceiling 1, one Router call in flight, and both evaluators
\* invoked by its Comparator have not returned yet
C29_Witness ==
    /\ bpc = "running"
    /\ maxConcurrency = 1
    /\ Cardinality(RouterCallsOpen) = 1
    /\ spicePc = "calling"
    /\ neo4jPc = "calling"

\* the pair a side of the Comparator ended with: the pair its client
\* returned, or the error set for a missing client
SpiceOutcome == IF Invoked("Spice") THEN First("Spice") ELSE Pair(Nil, SpiceMissingErr)
Neo4jOutcome == IF Invoked("Neo4j") THEN First("Neo4j") ELSE Pair(Nil, Neo4jMissingErr)

\* C30: the pair the Comparator returns is a function of the outcomes of its
\* two sides alone: it is the same for the two orders in which they can
\* finish.
C30_OrderIndependent ==
    ViaComparator =>
        /\ firstClosed \in {"spice", "neo4j"}
        /\ ret = Reconcile(SpiceOutcome.resp, SpiceOutcome.err,
                           Neo4jOutcome.resp, Neo4jOutcome.err).ret

\* C30 witness: the Neo4j call finished first and granted, the SpiceDB call
\* finished second and denied, and the SpiceDB decision is returned
C30_Witness ==
    /\ ViaComparator
    /\ firstClosed = "neo4j"
    /\ Invoked("Spice") /\ Invoked("Neo4j")
    /\ SideSucceeded("Spice") /\ SideSucceeded("Neo4j")
    /\ Deref(First("Neo4j").resp).HasPermission
    /\ ~Deref(First("Spice").resp).HasPermission
    /\ ~Deref(ret.resp).HasPermission

\* what the caller of the Comparator can tell apart: the decision, the
\* backend tag, and whether the call ended with an error
Verdict(o) ==
    [decision |-> IF IsNil(o.resp) THEN "none" ELSE Deref(o.resp).HasPermission,
     tag      |-> IF IsNil(o.resp) THEN "none" ELSE Deref(o.resp).Implementation,
     failed   |-> o.err # NoErr]

\* the verdict of the Comparator had the SpiceDB side ended with the pair so
SpiceSideReplaced(so) ==
    Verdict(Reconcile(so.resp, so.err, Neo4jOutcome.resp, Neo4jOutcome.err).ret)

\* the verdict of the Comparator had the Neo4j side ended with the pair no
Neo4jSideReplaced(no) ==
    Verdict(Reconcile(SpiceOutcome.resp, SpiceOutcome.err, no.resp, no.err).ret)

\* C31: when a configured side of the Comparator raised an error, the
\* decision, the tag and the error outcome returned are those the call returns
\* with that side not configured and the other side unchanged; and a side that
\* is not configured is never invoked.
C31_FailureKindsSymmetric ==
    /\ (ViaComparator /\ Invoked("Spice") /\ First("Spice").err # NoErr) =>
          \A so \in SpiceSide(NewService("nil", svc.Neo4j, svc.GraphQL), req) :
              Verdict(ret) = SpiceSideReplaced(so)
    /\ (ViaComparator /\ Invoked("Neo4j") /\ First("Neo4j").err # NoErr) =>
          \A no \in Neo4jSide(NewService(svc.Spice, "nil", svc.GraphQL), req) :
              Verdict(ret) = Neo4jSideReplaced(no)
    /\ \A field \in {"Spice", "Neo4j"} :
          (implementation = "BOTH" /\ svc[field] = "nil") => ~Invoked(field)

\* C31 witness: the Neo4j client raised an error and the SpiceDB client
\* granted the permission, which is what the call returned
C31_Witness ==
    /\ ViaComparator
    /\ Invoked("Neo4j")
    /\ First("Neo4j").err # NoErr
    /\ SideSucceeded("Spice")
    /\ Deref(First("Spice").resp).HasPermission
    /\ Deref(ret.resp).HasPermission
    /\ ret.err = NoErr

\* the tag and the message of a response object; nil has none
TagAndMessage(p) ==
    IF IsNil(p) THEN <<>> ELSE <<Deref(p).Implementation, Deref(p).ErrorMessage>>

\* the response object of a side is as its client produced it
AsProduced(field, p) == Invoked(field) => p = First(field).resp

\* C32 as stated: after the Comparator returns, the response object of each
\* evaluator has the tag and the message the evaluator gave it.
C32_AsStated ==
    ViaComparator =>
        /\ Invoked("Spice") =>
              TagAndMessage(spiceResult) = TagAndMessage(First("Spice").resp)
        /\ Invoked("Neo4j") =>
              TagAndMessage(neo4jResult) = TagAndMessage(First("Neo4j").resp)

\* C32: the Comparator rewrites in place the tag and the message of the one
\* response object it returns, and nothing else: the decision of that object is
\* the evaluator's, the object of the other side is as its evaluator produced
\* it, and when both sides failed both objects are as produced.
C32_OnlyReturnedObjectRewritten ==
    ViaComparator =>
        /\ (SideFailed("Spice") /\ SideFailed("Neo4j")) =>
              /\ AsProduced("Spice", spiceResult)
              /\ AsProduced("Neo4j", neo4jResult)
        /\ (SideFailed("Spice") /\ SideSucceeded("Neo4j")) =>
              /\ AsProduced("Spice", spiceResult)
              /\ ret.resp = neo4jResult
              /\ Deref(neo4jResult).Implementation = "BOTH"
              /\ Deref(neo4jResult).HasPermission
                     = Deref(First("Neo4j").resp).HasPermission
        /\ (SideSucceeded("Spice") /\ SideFailed("Neo4j")) =>
              /\ AsProduced("Neo4j", neo4jResult)
              /\ ret.resp = spiceResult
              /\ Deref(spiceResult).Implementation = "BOTH"
              /\ Deref(spiceResult).HasPermission
                     = Deref(First("Spice").resp).HasPermission
        /\ (SideSucceeded("Spice") /\ SideSucceeded("Neo4j")) =>
              /\ AsProduced("Neo4j", neo4jResult)
              /\ ret.resp = spiceResult
              /\ Deref(spiceResult).Implementation = "BOTH"
              /\ Deref(spiceResult).ErrorMessage = Deref(First("Spice").resp).ErrorMessage
              /\ Deref(spiceResult).HasPermission
                     = Deref(First("Spice").resp).HasPermission

\* C32 witness: both clients granted; the SpiceDB object now carries the tag
\* BOTH, the Neo4j object still carries NEO4J
C32_Witness ==
    /\ ViaComparator
    /\ SideSucceeded("Spice")
    /\ SideSucceeded("Neo4j")
    /\ Deref(First("Spice").resp).HasPermission
    /\ Deref(First("Spice").resp).Implementation = "UNSPECIFIED"
    /\ Deref(spiceResult).Implementation = "BOTH"
    /\ Deref(spiceResult).HasPermission
    /\ Deref(neo4jResult).Implementation = "NEO4J"

\* worker i of the running case has made its Router call and recorded its latency
HasRecorded(i) == benchWpc[i] \in {"counted", "released", "done"}

\* the statistics of the running case have been computed
CaseComputed == benchPc \in {"loop", "returned"} /\ caseIdx > 0

\* C33: in a benchmark case, slot i of the latency slice is assigned by
\* iteration i alone and once, and the slice is sorted and the statistics
\* computed only after every one of the `iterations` workers has finished, so
\* over a slice of `iterations` values each of which was recorded exactly once.
C33_BenchmarkBarrier ==
    /\ benchPc = "case" =>
          /\ Len(times) = benchReq.Iterations
          /\ \A i \in 1..Len(times) :
                recorded[i] = (IF HasRecorded(i) THEN 1 ELSE 0)
    /\ CaseComputed =>
          /\ Len(times) = benchReq.Iterations
          /\ benchLaunched = benchReq.Iterations
          /\ \A i \in 1..Len(times) : benchWpc[i] = "done" /\ recorded[i] = 1
          /\ times = SortFloat64s(times)
          /\ HasResult(caseIdx) =>
                Deref(results[caseIdx]).TotalRequests = Len(times)

\* C33 witness: a case of two iterations that recorded two different
\* latencies, each slot once; the statistics are computed over both values
C33_Witness ==
    /\ CaseComputed
    /\ HasResult(caseIdx)
    /\ Len(times) = 2
    /\ times[1] < times[2]
    /\ recorded = <<1, 1>>
    /\ Deref(results[caseIdx]).MinResponseTimeMs = times[1]
    /\ Deref(results[caseIdx]).MaxResponseTimeMs = times[2]

\* the Router has been called for test case k of a request of CasePairs: the
\* first case takes the default route, the second the Neo4j route
CalledForCase(k) ==
    (IF k = 1 THEN "SPICEDB" ELSE "NEO4J") \in routedTo

\* every iteration of the running case has finished
AllIterationsDone ==
    /\ Len(benchWpc) = benchReq.Iterations
    /\ \A i \in DOMAIN benchWpc : benchWpc[i] = "done"

\* C34: the cases of a benchmark are run one after another: the loop moves to
\* the next case only when every iteration of the running case has finished,
\* and the Router is called for a case only when every earlier case has its
\* result.  results[k] carries the name of cases[k], and the summary of the
\* returned call counts len(cases) * iterations requests.
C34_CasesInOrder ==
    /\ \A k \in DOMAIN results :
          /\ HasResult(k) <=> (k < caseIdx \/ (k = caseIdx /\ CaseComputed))
          /\ HasResult(k) => Deref(results[k]).TestName = benchReq.TestCases[k].Name
          /\ CalledForCase(k) =>
                /\ k <= caseIdx
                /\ \A j \in 1..(k - 1) : HasResult(j)
    /\ CaseComputed => AllIterationsDone
    /\ totalRequests = Cardinality({k \in DOMAIN results : HasResult(k)})
                          * benchReq.Iterations
    /\ benchPc = "returned" =>
          /\ Len(benchRet.Results) = Len(benchReq.TestCases)
          /\ benchRet.Results = results
          /\ \A k \in DOMAIN results : HasResult(k)
          /\ benchRet.Summary.TotalRequests
                 = Len(benchReq.TestCases) * benchReq.Iterations

\* C34 witness: a request of two cases and two iterations has returned; the
\* results are named after the cases in their order and the summary counts 4
C34_Witness ==
    /\ benchPc = "returned"
    /\ Len(benchReq.TestCases) = 2
    /\ benchReq.Iterations = 2
    /\ Deref(benchRet.Results[1]).TestName = "first"
    /\ Deref(benchRet.Results[2]).TestName = "second"
    /\ CalledForCase(1) /\ CalledForCase(2)
    /\ benchRet.Summary.TotalRequests = 4

\* the Service field a hint selects, as a table
SelectedField(r) ==
    IF RequestedBackend(r) = "NEO4J" THEN "Neo4j"
    ELSE IF RequestedBackend(r) = "GRAPHQL" THEN "GraphQL"
    ELSE "Spice"

\* the number of times the client behind a field has been invoked in the call
Invocations(field) ==
    Len(returned[field])
    + (IF evalPc = "calling" /\ SelectedField(req) = field THEN 1 ELSE 0)
    + (IF field = "Spice" /\ spicePc = "calling" THEN 1 ELSE 0)
    + (IF field = "Neo4j" /\ neo4jPc = "calling" THEN 1 ELSE 0)

Fields == {"Spice", "Neo4j", "GraphQL"}

\* C35 as stated: a returned single-backend call has invoked the selected
\* evaluator exactly once and no other; a returned BOTH call has invoked
\* SpiceDB and Neo4j at most once each and GraphQL never.
C35_AsStated ==
    /\ SingleBackend =>
          \A field \in Fields :
              Invocations(field) = (IF field = SelectedField(req) THEN 1 ELSE 0)
    /\ ViaComparator =>
          /\ Invocations("Spice") <= 1
          /\ Invocations("Neo4j") <= 1
          /\ Invocations("GraphQL") = 0

\* C35: a Router call invokes only configured evaluators: with a
\* single-backend hint the selected evaluator once if it is configured and
\* none if it is not, and no other evaluator at any time of the call; with the
\* hint BOTH each of SpiceDB and Neo4j once if it is configured, and GraphQL
\* never.
C35_InvocationFootprint ==
    /\ \A field \in Fields :
          /\ Invocations(field) <= 1
          /\ svc[field] = "nil" => Invocations(field) = 0
    /\ (pc # "idle" /\ RequestedBackend(req) # "BOTH") =>
          \A field \in Fields \ {SelectedField(req)} : Invocations(field) = 0
    /\ (pc # "idle" /\ RequestedBackend(req) = "BOTH") => Invocations("GraphQL") = 0
    /\ SingleBackend =>
          Invocations(SelectedField(req))
              = (IF svc[SelectedField(req)] = "nil" THEN 0 ELSE 1)
    /\ ViaComparator =>
          \A field \in {"Spice", "Neo4j"} :
              Invocations(field) = (IF svc[field] = "nil" THEN 0 ELSE 1)

\* C35 witness: a call with the hint "graphql" on a Service with all three
\* clients has returned after one invocation of the GraphQL client
C35_Witness ==
    /\ SingleBackend
    /\ RequestedBackend(req) = "GRAPHQL"
    /\ svc = NewService("client", "client", "client")
    /\ Invocations("GraphQL") = 1
    /\ Invocations("Spice") = 0
    /\ Invocations("Neo4j") = 0

\* the workers of the batch that have added to a counter
Counted == {i \in DOMAIN wpc : wpc[i] \in {"counted", "released", "done"}}

\* the workers of the batch that have assigned their slot
Stored == {i \in DOMAIN wpc : wpc[i] \in {"stored", "counted", "released", "done"}}

\* the Router answered with the response it synthesizes for a missing client
SynthesizedNotAvailable(o) ==
    o \in {NotAvailable(impl) : impl \in {"SPICEDB", "NEO4J", "GRAPHQL"}}

\* the Router answered with the Comparator's response for two failed sides
BothFailedResponse(o) ==
    /\ ~IsNil(o.resp)
    /\ Deref(o.resp).Implementation = "BOTH"
    /\ Contains(Deref(o.resp).ErrorMessage, "Both backends unavailable - SpiceDB: ")

\* C36: errorCount counts exactly the items whose Router call returned an
\* error and successCount all the others; the slot of an item with an error
\* holds decision=false, the error text and no backend tag; an item answered
\* with a synthesized not-available response or with the both-failed response
\* has no error, keeps that response in its slot and is counted as a success.
C36_ErrorAccounting ==
    /\ errorCount = Cardinality({i \in Counted : routed[i].err # NoErr})
    /\ successCount = Cardinality({i \in Counted : routed[i].err = NoErr})
    /\ \A i \in Stored :
          /\ routed[i].err # NoErr =>
                Deref(responses[i]) = [HasPermission |-> FALSE,
                                       Implementation |-> "UNSPECIFIED",
                                       ErrorMessage |-> routed[i].err]
          /\ (SynthesizedNotAvailable(routed[i]) \/ BothFailedResponse(routed[i])) =>
                /\ routed[i].err = NoErr
                /\ responses[i] = routed[i].resp
    /\ BulkDone =>
          /\ bulkRet.ErrorCount
                 = Cardinality({i \in DOMAIN routed : routed[i].err # NoErr})
          /\ bulkRet.SuccessCount
                 = Cardinality({i \in DOMAIN routed : routed[i].err = NoErr})

\* C36 witness: a returned batch of two items, the first with an error of the
\* Neo4j client and the second with the both-failed response: one error, one
\* success
C36_Witness ==
    /\ BulkDone
    /\ Len(requests) = 2
    /\ routed[1].err # NoErr
    /\ BothFailedResponse(routed[2])
    /\ bulkRet.ErrorCount = 1
    /\ bulkRet.SuccessCount = 1
    /\ Deref(bulkRet.Responses[1]).ErrorMessage = routed[1].err
    /\ Deref(bulkRet.Responses[2]).Implementation = "BOTH"

\* an evaluator call kept the contract: it returned an error or a response
KeepsContract(o) == o.err # NoErr \/ ~IsNil(o.resp)

\* every evaluator call the Comparator made kept the contract
ContractKept ==
    \A field \in {"Spice", "Neo4j"} :
        Invoked(field) => KeepsContract(First(field))

UnexpectedState == <<"unexpected state in both implementations check">>

\* C37: when every client call of a Comparator call returned an error or a
\* response, the Comparator returns a response and no error: the "unexpected
\* state" error is not returned.
C37_NoUnexpectedState ==
    (ViaComparator /\ ContractKept) =>
        /\ ret.err # UnexpectedState
        /\ ret.err = NoErr
        /\ ~IsNil(ret.resp)

\* C37 witness: the SpiceDB client returned a response together with an
\* error, the Neo4j client returned an error and no response, and the call
\* returned the both-failed response
C37_Witness ==
    /\ ViaComparator
    /\ Invoked("Spice") /\ Invoked("Neo4j")
    /\ First("Spice").err # NoErr /\ ~IsNil(First("Spice").resp)
    /\ First("Neo4j").err # NoErr /\ IsNil(First("Neo4j").resp)
    /\ ret.err = NoErr
    /\ Deref(ret.resp).Implementation = "BOTH"

\* the response that answers a Router pair on the stream
AnswerTo(o) ==
    IF o.err # NoErr
    THEN <<[HasPermission |-> FALSE, Implementation |-> "UNSPECIFIED",
            ErrorMessage |-> o.err]>>
    ELSE o.resp

\* C38: on a stream the k-th response sent answers the k-th request received:
\* it is the Router's response for that request, or decision=false with the
\* error text when the Router returned an error, and the stream goes on.  A
\* request is read only when every earlier request has its response sent.  The
\* handler returns nil at the end of the input after answering every request,
\* the receive error when a receive fails, and the send error when a send
\* fails, the request read last then having no response.
C38_StreamInOrder ==
    /\ Len(streamRecvd) - Len(streamSent) \in {0, 1}
    /\ streamPc \in {"idle", "recv"} => Len(streamSent) = Len(streamRecvd)
    /\ streamPc \in {"call", "send"} =>
          /\ Len(streamSent) = Len(streamRecvd) - 1
          /\ streamReq = streamRecvd[Len(streamRecvd)]
    /\ Len(streamRouted) = (IF streamPc = "call" THEN Len(streamRecvd) - 1
                            ELSE Len(streamRecvd))
    /\ \A k \in 1..Len(streamRouted) :
          streamRouted[k] \in RouterOutcomes(svc, streamRecvd[k])
    /\ \A k \in 1..Len(streamSent) : streamSent[k] = AnswerTo(streamRouted[k])
    /\ streamPc = "send" => streamResp = AnswerTo(streamRouted[Len(streamRouted)])
    /\ streamPc = "ended" =>
          \/ /\ streamRet = NoErr
             /\ streamIn = [Requests |-> <<>>, End |-> <<"EOF">>]
             /\ Len(streamSent) = Len(streamRecvd)
          \/ /\ streamRet = <<"recv failed">>
             /\ streamIn = [Requests |-> <<>>, End |-> <<"recv failed">>]
             /\ Len(streamSent) = Len(streamRecvd)
          \/ /\ streamRet = <<"send failed">>
             /\ Len(streamSent) = Len(streamRecvd) - 1
    /\ streamPc # "ended" => streamRet = NoErr

\* C38 witness: a stream of two requests has ended without error; the Router
\* returned an error for the first, which was answered with decision=false
\* and the error text, and the second was answered through the Comparator
C38_Witness ==
    /\ streamPc = "ended"
    /\ streamRet = NoErr
    /\ Len(streamRecvd) = 2
    /\ Len(streamSent) = 2
    /\ streamRouted[1].err # NoErr
    /\ ~Deref(streamSent[1]).HasPermission
    /\ Deref(streamSent[1]).ErrorMessage = streamRouted[1].err
    /\ RequestedBackend(streamRecvd[2]) = "BOTH"
    /\ Deref(streamSent[2]).Implementation = "BOTH"

\* C39: the Success field of a case's result is true exactly when its
\* FailedRequests is 0, which for the case just run is exactly when every
\* iteration returned the expected decision without error.
C39_SuccessFlag ==
    \A k \in DOMAIN results : HasResult(k) =>
        LET r == Deref(results[k]) IN
        /\ r.Success <=> (r.FailedRequests = 0)
        /\ r.Success <=> (r.SuccessfulRequests = r.TotalRequests)
        /\ (k = caseIdx) => (r.Success <=> (asExpected = benchReq.Iterations))

\* C39 witness: a case of two iterations of which one returned the expected
\* decision and one did not; its result is not a success
C39_Witness ==
    /\ HasResult(1)
    /\ caseIdx = 1
    /\ benchReq.Iterations = 2
    /\ asExpected = 1
    /\ Deref(results[1]).FailedRequests = 1
    /\ ~Deref(results[1]).Success

====
